---- MODULE Spec2Model ----
(***************************************************************************)
(* Model of the JSON / TOON / MARKDOWN Gemini benchmark harness:           *)
(*   src/src/toon-vs-json.ts       trial runner, delta engine, report      *)
(*                                 writer                                  *)
(*   src/src/aggregate-reports.ts  report reader and aggregator            *)
(*                                                                         *)
(* Three specifications share the module:                                  *)
(*   Spec        the trial series (main, runOnce, analyzeFormat and the    *)
(*               shared rate limiter withRateLimit) over a discrete clock  *)
(*   SpecReport  one trial summary taken through computeDeltas,            *)
(*               generateMarkdownReport and parseMarkdownReport            *)
(*   SpecAgg     the reports directory, the trial writer and the           *)
(*               aggregator aggregateReports                               *)
(*                                                                         *)
(* Numbers.  JavaScript numbers that hold token counts are integers.       *)
(* Durations, percentages and averages are modelled as exact rationals     *)
(* [n, d] in lowest terms (binary floating-point rounding error is not     *)
(* modelled).  Text produced by toFixed / toLocaleString and read back by  *)
(* parseInt / parseFloat / the regular expressions is modelled character   *)
(* by character as a sequence of one-character strings.                    *)
(***************************************************************************)
EXTENDS Integers, Sequences, FiniteSets, TLC

VARIABLES
    \* ---- trial series (Spec) ----
    now,                        \* Date.now() / performance.now(), in ms
    nextAvailableRequestTime,   \* toon-vs-json.ts:254
    mainPc,                     \* position of main() / runOnce()
    index,                      \* loop variable of main()
    options,                    \* SeriesOptions returned by parseCliArgs
    delayUntil,                 \* wake-up time of sleep(delayMs) in main()
    task,                       \* the three analyzeFormat sub-tasks
    exitCode,                   \* process.exitCode
    reportsWritten,             \* Markdown reports persisted by runOnce
    averagesPrinted,            \* calls of printAverageMetrics by main()
    lastStart,                  \* start of the latest outbound call of the trial
    minStartGap,                \* least time between two call starts of the trial
    \* ---- one report through writer and reader (SpecReport) ----
    rpc,                        \* position in the write / read-back path
    summary,                    \* ComparisonSummary of the trial
    markdown,                   \* text of generateMarkdownReport(summary)
    parsed,                     \* result of parseMarkdownReport
    \* ---- reports directory and aggregator (SpecAgg) ----
    dirExists,                  \* the directory TJM_Reports exists
    store,                      \* TJM_Reports: file name -> content
    written,                    \* trial summaries as persisted (history)
    aggPc,                      \* position of aggregateReports()
    markdownFiles,              \* files still to be parsed in this run
    reports,                    \* BenchmarkReport[] of this run
    skipped,                    \* files of this run that gave null
    aggExit,                    \* exit status of the aggregation process
    runs,                       \* one record per finished aggregation run
    \* ---- process start and command line (SpecStartup, SpecCli) ----
    procEnv,                    \* process.env after dotenv.config(): the API keys
    processArgv,                \* process.argv.slice(2)
    cliPc,                      \* position of main() around parseCliArgs
    cliOptions,                 \* result of parseCliArgs
    cliIndex,                   \* loop variable of main()
    \* ---- file names of a trial (SpecNames) ----
    namePc,                     \* "start" or "named"
    nameStamps,                 \* the timestamps of two trials
    nameFiles,                  \* the file names persisted for each
    \* ---- jsonToMarkdown (SpecMarkdown) ----
    mdPc,                       \* "start" or "done"
    mdData,                     \* the value handed to jsonToMarkdown
    mdResult,                   \* what the call gave
    \* ---- getExcerpt (SpecExcerpt) ----
    excerptPc,                  \* "start" or "done"
    excerptText,                \* the text handed to getExcerpt
    excerptResult               \* what the call gave

runnerVars == <<now, nextAvailableRequestTime, mainPc, index, options,
                delayUntil, task, exitCode, reportsWritten, averagesPrinted,
                lastStart, minStartGap>>
reportVars == <<rpc, summary, markdown, parsed>>
aggVars == <<dirExists, store, written, aggPc, markdownFiles, reports, skipped,
             aggExit, runs>>
cliVars == <<processArgv, cliPc, cliOptions, cliIndex>>
nameVars == <<namePc, nameStamps, nameFiles>>
mdVars == <<mdPc, mdData, mdResult>>
excerptVars == <<excerptPc, excerptText, excerptResult>>
toolVars == <<procEnv, cliVars, nameVars, mdVars, excerptVars>>
vars == <<runnerVars, reportVars, aggVars, toolVars>>

Formats == <<"JSON", "TOON", "MARKDOWN">>
FormatSet == {"JSON", "TOON", "MARKDOWN"}

(***************************************************************************)
(* Bounds of the model                                                     *)
(***************************************************************************)
TicksPerCooldown == 3      \* clock steps per cooldown period
MaxTicks == 9              \* clock steps per behaviour
MaxRepeat == 2             \* largest --repeat
MaxReports == 3            \* trial reports persisted into TJM_Reports
MaxRuns == 2               \* aggregation runs per behaviour

(***************************************************************************)
(* Program constants                                                       *)
(***************************************************************************)
REQUEST_COOLDOWN_MS == 4500
MODEL_NAME == "gemini-2.0-flash"

\* undefined in the place of a token count, and null in the place of a report
Undefined == -1
Null == "null"

TickMs == REQUEST_COOLDOWN_MS \div TicksPerCooldown
MaxTime == MaxTicks * TickMs

(***************************************************************************)
(* Values the unused variable groups hold under a specification that does  *)
(* not drive them.                                                         *)
(***************************************************************************)
NoTask == [pc |-> "idle", wakeAt |-> 0, measureStart |-> 0, started |-> 0,
           apiLatencyMs |-> -1, callMs |-> -1]

RunnerIdle ==
    /\ now = 0
    /\ nextAvailableRequestTime = 0
    /\ mainPc = "off"
    /\ index = 0
    /\ options = [repeat |-> 1, delayMs |-> 0]
    /\ delayUntil = 0
    /\ task = [f \in FormatSet |-> NoTask]
    /\ exitCode = 0
    /\ reportsWritten = 0
    /\ averagesPrinted = 0
    /\ lastStart = -1
    /\ minStartGap = -1

ReportIdle ==
    /\ rpc = "off"
    /\ summary = <<>>
    /\ markdown = <<>>
    /\ parsed = [why |-> "none", report |-> Null]

AggIdle ==
    /\ dirExists = FALSE
    /\ store = <<>>
    /\ written = <<>>
    /\ aggPc = "off"
    /\ markdownFiles = <<>>
    /\ reports = <<>>
    /\ skipped = <<>>
    /\ aggExit = 0
    /\ runs = <<>>

\* An environment variable that is not set reads as undefined.
Unset == "<undefined>"

EnvIdle == procEnv = [GEMINI_API_KEY |-> "key", GOOGLE_API_KEY |-> Unset]

CliIdle ==
    /\ processArgv = <<>>
    /\ cliPc = "off"
    /\ cliOptions = <<>>
    /\ cliIndex = 0

NameIdle ==
    /\ namePc = "off"
    /\ nameStamps = <<>>
    /\ nameFiles = <<>>

MdIdle ==
    /\ mdPc = "off"
    /\ mdData = <<>>
    /\ mdResult = <<>>

ExcerptIdle ==
    /\ excerptPc = "off"
    /\ excerptText = <<>>
    /\ excerptResult = <<>>

ToolIdle == EnvIdle /\ CliIdle /\ NameIdle /\ MdIdle /\ ExcerptIdle

(***************************************************************************)
(*                      THE TRIAL SERIES  (Spec)                           *)
(*                                                                         *)
(* JavaScript runs one macrotask at a time.  An action below is one        *)
(* macrotask together with the promise continuations it triggers: the      *)
(* synchronous start of a trial, the completion of an outbound call, the   *)
(* firing of a timer.  Tick lets the wall clock advance between them; a    *)
(* timer that is due and a pending file operation run before the clock     *)
(* advances by another TickMs.                                             *)
(*                                                                         *)
(* A sub-task is a record: pc ("idle", "sleepCount", "count", "sleepGen",  *)
(* "gen", "done", "failed"), wakeAt (the timer of sleep), measureStart     *)
(* (start read by measureAsync), started (start of the call in flight),    *)
(* apiLatencyMs (elapsedMs of measureAsync) and callMs (time from the      *)
(* start of generateContent to its return).                                *)
(***************************************************************************)
Min(a, b) == IF a <= b THEN a ELSE b
Abs(x) == IF x < 0 THEN -x ELSE x

\* Mutant of EnterRateLimit: the task is called without the sleep.
EnterRateLimit_noSleep(t, kind, clock, nextAvail) ==
    [t EXCEPT !.pc = kind, !.started = clock]

\* The part of withRateLimit that runs synchronously on entry
\* (toon-vs-json.ts:257-261): read the clock, then either go to sleep until
\* the nextAvailableRequestTime observed now, or call task() at once, which
\* starts the outbound call.  kind is "count" or "gen".
EnterRateLimit(t, kind, clock, nextAvail) ==
    IF clock < nextAvail
    THEN [t EXCEPT !.pc = IF kind = "count" THEN "sleepCount" ELSE "sleepGen",
                   !.wakeAt = nextAvail]
    ELSE [t EXCEPT !.pc = kind, !.started = clock]

\* analyzeFormat up to its first suspension (toon-vs-json.ts:310-320): the
\* countTokens call goes through withRateLimit.
AnalyzeFormatStart(clock, nextAvail) ==
    EnterRateLimit(NoTask, "count", clock, nextAvail)

\* History of call starts: n calls start at time clock.
NoteStarts(n, clock) ==
    IF n = 0
    THEN UNCHANGED <<lastStart, minStartGap>>
    ELSE /\ lastStart' = clock
         /\ minStartGap' =
               LET g1 == IF lastStart < 0 THEN -1 ELSE clock - lastStart
                   g2 == IF n > 1 THEN 0 ELSE g1
               IN IF minStartGap < 0 THEN g2
                  ELSE IF g2 < 0 THEN minStartGap
                  ELSE Min(minStartGap, g2)

\* main() enters runOnce() (toon-vs-json.ts:457-459, 266-285): the dataset is
\* read and converted, and Promise.all calls analyzeFormat for JSON, TOON and
\* MARKDOWN one after the other in the same synchronous block.
StartTrial ==
    /\ mainPc = "ready"
    /\ task' = [f \in FormatSet |->
                   AnalyzeFormatStart(now, nextAvailableRequestTime)]
    /\ mainPc' = "awaitAll"
    /\ lastStart' = IF now < nextAvailableRequestTime THEN -1 ELSE now
    /\ minStartGap' = IF now < nextAvailableRequestTime THEN -1 ELSE 0
    /\ UNCHANGED <<now, nextAvailableRequestTime, index, options, delayUntil,
                   exitCode, reportsWritten, averagesPrinted, reportVars, aggVars, toolVars>>

\* The timer of sleep() inside withRateLimit fires (toon-vs-json.ts:259-261):
\* the task is called without looking at nextAvailableRequestTime again.
SleepWake(f) ==
    /\ task[f].pc \in {"sleepCount", "sleepGen"}
    /\ now >= task[f].wakeAt
    /\ task' = [task EXCEPT ![f] =
                   [@ EXCEPT !.pc = IF task[f].pc = "sleepCount"
                                    THEN "count" ELSE "gen",
                             !.started = now]]
    /\ NoteStarts(1, now)
    /\ UNCHANGED <<now, nextAvailableRequestTime, mainPc, index, options,
                   delayUntil, exitCode, reportsWritten, averagesPrinted, reportVars, aggVars, toolVars>>

\* The value withRateLimit stores after a call has returned
\* (toon-vs-json.ts:262).
CooldownAfter(clock) == clock + REQUEST_COOLDOWN_MS

\* countTokens returns (toon-vs-json.ts:261-263, 322-335): withRateLimit
\* stores the new nextAvailableRequestTime, analyzeFormat takes the token
\* count, measureAsync reads its start time and generateContent enters
\* withRateLimit.
CountComplete(f) ==
    /\ task[f].pc = "count"
    /\ nextAvailableRequestTime' = CooldownAfter(now)
    /\ LET t == EnterRateLimit([task[f] EXCEPT !.measureStart = now], "gen",
                               now, CooldownAfter(now))
       IN /\ task' = [task EXCEPT ![f] = t]
          /\ NoteStarts(IF t.pc = "gen" THEN 1 ELSE 0, now)
    /\ UNCHANGED <<now, mainPc, index, options, delayUntil, exitCode,
                   reportsWritten, averagesPrinted, reportVars, aggVars, toolVars>>

\* Mutant of GenComplete: runOnce goes on as soon as one sub-task has
\* resolved (Promise.race in the place of Promise.all).
GenComplete_firstWins(f) ==
    /\ task[f].pc = "gen"
    /\ nextAvailableRequestTime' = CooldownAfter(now)
    /\ task' = [task EXCEPT ![f] =
                   [@ EXCEPT !.pc = "done",
                             !.apiLatencyMs = now - task[f].measureStart,
                             !.callMs = now - task[f].started]]
    /\ mainPc' = IF mainPc = "awaitAll" THEN "persist" ELSE mainPc
    /\ UNCHANGED <<now, index, options, delayUntil, exitCode, reportsWritten, averagesPrinted,
                   lastStart, minStartGap, reportVars, aggVars, toolVars>>

\* generateContent returns (toon-vs-json.ts:261-263, 222-224, 337-351,
\* 285-302): withRateLimit stores the new nextAvailableRequestTime,
\* measureAsync reads its end time and analyzeFormat resolves with the
\* FormatMetrics.  When it is the last of the three, Promise.all resolves,
\* deltas are computed and runOnce goes on to write the report files.
GenComplete(f) ==
    /\ task[f].pc = "gen"
    /\ nextAvailableRequestTime' = CooldownAfter(now)
    /\ task' = [task EXCEPT ![f] =
                   [@ EXCEPT !.pc = "done",
                             !.apiLatencyMs = now - task[f].measureStart,
                             !.callMs = now - task[f].started]]
    /\ mainPc' = IF /\ mainPc = "awaitAll"
                    /\ \A g \in FormatSet \ {f} : task[g].pc = "done"
                 THEN "persist" ELSE mainPc
    /\ UNCHANGED <<now, index, options, delayUntil, exitCode, reportsWritten, averagesPrinted,
                   lastStart, minStartGap, reportVars, aggVars, toolVars>>

\* Mutant of CallFail: the rejection of the sub-task is swallowed, main keeps
\* waiting and the exit code stays 0.
CallFail_swallowed(f) ==
    /\ task[f].pc \in {"count", "gen"}
    /\ task' = [task EXCEPT ![f] = [@ EXCEPT !.pc = "failed"]]
    /\ UNCHANGED <<now, nextAvailableRequestTime, mainPc, index, options,
                   delayUntil, exitCode, reportsWritten, averagesPrinted, lastStart,
                   minStartGap, reportVars, aggVars, toolVars>>

\* Mutant of CallFail: withRateLimit stores the cooldown in a finally block,
\* so also when the call throws.
CallFail_stamps(f) ==
    /\ task[f].pc \in {"count", "gen"}
    /\ task' = [task EXCEPT ![f] = [@ EXCEPT !.pc = "failed"]]
    /\ nextAvailableRequestTime' = CooldownAfter(now)
    /\ IF mainPc = "awaitAll"
       THEN mainPc' = "failed" /\ exitCode' = 1
       ELSE UNCHANGED <<mainPc, exitCode>>
    /\ UNCHANGED <<now, index, options, delayUntil, reportsWritten, averagesPrinted, lastStart,
                   minStartGap, reportVars, aggVars, toolVars>>

\* An outbound call throws (toon-vs-json.ts:261, 281-285, 459, 473-476):
\* withRateLimit rejects before line 262, analyzeFormat rejects, Promise.all
\* rejects on the first rejection, runOnce and main reject and the catch
\* handler sets process.exitCode.  The other sub-tasks are not cancelled.
CallFail(f) ==
    /\ task[f].pc \in {"count", "gen"}
    /\ task' = [task EXCEPT ![f] = [@ EXCEPT !.pc = "failed"]]
    /\ IF mainPc = "awaitAll"
       THEN mainPc' = "failed" /\ exitCode' = 1
       ELSE UNCHANGED <<mainPc, exitCode>>
    /\ UNCHANGED <<now, nextAvailableRequestTime, index, options, delayUntil,
                   reportsWritten, averagesPrinted, lastStart, minStartGap, reportVars,
                   aggVars, toolVars>>

\* Mutant of PersistTrial: the averages are printed after every series.
PersistTrial_alwaysAverages ==
    /\ mainPc = "persist"
    /\ reportsWritten' = reportsWritten + 1
    /\ IF index < options.repeat - 1
       THEN /\ mainPc' = "delay"
            /\ delayUntil' = now + options.delayMs
            /\ UNCHANGED averagesPrinted
       ELSE /\ mainPc' = "done"
            /\ averagesPrinted' = averagesPrinted + 1
            /\ UNCHANGED delayUntil
    /\ UNCHANGED <<now, nextAvailableRequestTime, index, options, task,
                   exitCode, lastStart, minStartGap, reportVars, aggVars, toolVars>>

\* persistMarkdownReport and persistRawResponses have written their files
\* (toon-vs-json.ts:304-307, 460-470): runOnce returns, main pushes the
\* summary (one per report written) and either sleeps delayMs or leaves the
\* loop, prints the averages when it holds more than one summary, and
\* returns.
PersistTrial ==
    /\ mainPc = "persist"
    /\ reportsWritten' = reportsWritten + 1
    /\ IF index < options.repeat - 1
       THEN /\ mainPc' = "delay"
            /\ delayUntil' = now + options.delayMs
            /\ UNCHANGED averagesPrinted
       ELSE /\ mainPc' = "done"
            /\ averagesPrinted' = IF reportsWritten' > 1
                                  THEN averagesPrinted + 1
                                  ELSE averagesPrinted
            /\ UNCHANGED delayUntil
    /\ UNCHANGED <<now, nextAvailableRequestTime, index, options, task,
                   exitCode, lastStart, minStartGap, reportVars, aggVars, toolVars>>

\* Mutant of DelayElapsed: main goes on to the next trial without waiting
\* for the timer.
DelayElapsed_noWait ==
    /\ mainPc = "delay"
    /\ index' = index + 1
    /\ mainPc' = "ready"
    /\ UNCHANGED <<now, nextAvailableRequestTime, options, delayUntil, task,
                   exitCode, reportsWritten, averagesPrinted, lastStart, minStartGap,
                   reportVars, aggVars, toolVars>>

\* The timer of sleep(delayMs) in main fires (toon-vs-json.ts:464, 457).
DelayElapsed ==
    /\ mainPc = "delay"
    /\ now >= delayUntil
    /\ index' = index + 1
    /\ mainPc' = "ready"
    /\ UNCHANGED <<now, nextAvailableRequestTime, options, delayUntil, task,
                   exitCode, reportsWritten, averagesPrinted, lastStart, minStartGap,
                   reportVars, aggVars, toolVars>>

\* A timer that is due, or a step of main that waits for nothing but the
\* file system.
StepDue ==
    \/ mainPc \in {"load", "ready", "persist"}
    \/ mainPc = "delay" /\ now >= delayUntil
    \/ \E f \in FormatSet :
          task[f].pc \in {"sleepCount", "sleepGen"} /\ now >= task[f].wakeAt

\* The wall clock advances.
Tick ==
    /\ now < MaxTime
    /\ ~StepDue
    /\ now' = now + TickMs
    /\ UNCHANGED <<nextAvailableRequestTime, mainPc, index, options,
                   delayUntil, task, exitCode, reportsWritten, averagesPrinted, lastStart,
                   minStartGap, reportVars, aggVars, toolVars>>

DelayChoices == {0, REQUEST_COOLDOWN_MS}

Init ==
    /\ now = 0
    /\ nextAvailableRequestTime = 0
    /\ mainPc = "ready"
    /\ index = 0
    /\ options \in [repeat : 1..MaxRepeat, delayMs : DelayChoices]
    /\ delayUntil = 0
    /\ task = [f \in FormatSet |-> NoTask]
    /\ exitCode = 0
    /\ reportsWritten = 0
    /\ averagesPrinted = 0
    /\ lastStart = -1
    /\ minStartGap = -1
    /\ ReportIdle
    /\ AggIdle
    /\ ToolIdle

Next ==
    \/ StartTrial
    \/ \E f \in FormatSet : SleepWake(f)
    \/ \E f \in FormatSet : CountComplete(f)
    \/ \E f \in FormatSet : GenComplete(f)
    \/ \E f \in FormatSet : CallFail(f)
    \/ PersistTrial
    \/ DelayElapsed
    \/ Tick

Spec == Init /\ [][Next]_vars

\* The outbound calls in flight.
InFlight == {f \in FormatSet : task[f].pc \in {"count", "gen"}}

(* C1: within a trial, the starts of any two outbound calls that go through
   withRateLimit are at least REQUEST_COOLDOWN_MS apart, the three first
   countTokens calls included. *)
C1_CooldownBetweenStarts ==
    minStartGap >= 0 => minStartGap >= REQUEST_COOLDOWN_MS

(* C2: in every reachable state of a trial at most one outbound call is in
   flight. *)
C2_AtMostOneInFlight == Cardinality(InFlight) <= 1

(***************************************************************************)
(*                      NUMBERS AND THEIR TEXT                             *)
(***************************************************************************)
Digits == <<"0", "1", "2", "3", "4", "5", "6", "7", "8", "9">>
DigitSet == {Digits[i] : i \in 1..10}
DigitVal(c) == (CHOOSE i \in 1..10 : Digits[i] = c) - 1

RECURSIVE GCD(_, _)
GCD(a, b) == IF b = 0 THEN a ELSE GCD(b, a % b)

RECURSIVE Pow10(_)
Pow10(k) == IF k = 0 THEN 1 ELSE 10 * Pow10(k - 1)

\* A JavaScript number that is not an integer by construction: the rational
\* n / d in lowest terms, d > 0.
Rat(n, d) == LET g == GCD(Abs(n), d) IN [n |-> n \div g, d |-> d \div g]
RatOfInt(i) == [n |-> i, d |-> 1]
RatAdd(x, y) == Rat(x.n * y.d + y.n * x.d, x.d * y.d)
RatSub(x, y) == Rat(x.n * y.d - y.n * x.d, x.d * y.d)
RatDivInt(x, k) == Rat(x.n, x.d * k)
RatMulInt(x, k) == LET g == GCD(Abs(k), x.d) IN Rat(x.n * (k \div g), x.d \div g)
RatLess(x, y) == x.n * y.d < y.n * x.d
RatAbs(x) == [n |-> Abs(x.n), d |-> x.d]
Zero == RatOfInt(0)

\* Math.round: the nearest integer, halves towards +infinity.
MathRound(x) == (2 * x.n + x.d) \div (2 * x.d)

\* The decimal digits of a natural number.
RECURSIVE NatToChars(_)
NatToChars(n) ==
    IF n < 10 THEN <<Digits[n + 1]>>
    ELSE NatToChars(n \div 10) \o <<Digits[(n % 10) + 1]>>

\* k decimal digits of n < 10^k, with leading zeros.
RECURSIVE PadDigits(_, _)
PadDigits(n, k) ==
    IF k = 0 THEN <<>> ELSE PadDigits(n \div 10, k - 1) \o <<Digits[(n % 10) + 1]>>

\* Number.prototype.toFixed(k), k >= 1: sign, then the magnitude rounded to
\* k decimals (halves away from zero).
ToFixed(x, k) ==
    LET a == Abs(x.n)
        m == (2 * a * Pow10(k) + x.d) \div (2 * x.d)
    IN (IF x.n < 0 THEN <<"-">> ELSE <<>>)
       \o NatToChars(m \div Pow10(k)) \o <<".">> \o PadDigits(m % Pow10(k), k)

\* A duration that is a whole number of tenths of a millisecond, as ToFixed
\* of the duration x with one decimal prints it.
RoundToTenth(x) ==
    LET a == Abs(x.n)
        m == (2 * a * 10 + x.d) \div (2 * x.d)
    IN Rat(IF x.n < 0 THEN -m ELSE m, 10)

\* Number.prototype.toLocaleString() of an integer (en-US, as in the stored
\* reports: "1,404"): groups of three digits separated by commas.
RECURSIVE GroupThousands(_)
GroupThousands(cs) ==
    IF Len(cs) <= 3 THEN cs
    ELSE GroupThousands(SubSeq(cs, 1, Len(cs) - 3)) \o <<",">>
         \o SubSeq(cs, Len(cs) - 2, Len(cs))

ToLocaleString(i) ==
    IF i < 0 THEN <<"-">> \o GroupThousands(NatToChars(-i))
    ELSE GroupThousands(NatToChars(i))

\* formatMs (toon-vs-json.ts:231-233, aggregate-reports.ts:195-197)
formatMs(ms) == ToFixed(ms, 1) \o <<"m", "s">>

NaN == "NaN"

\* The longest prefix of cs whose characters are all in set.
RECURSIVE TakeWhile(_, _)
TakeWhile(cs, set) ==
    IF cs = <<>> \/ Head(cs) \notin set THEN <<>>
    ELSE <<Head(cs)>> \o TakeWhile(Tail(cs), set)

RECURSIVE DigitsToNat(_)
DigitsToNat(cs) ==
    IF cs = <<>> THEN 0
    ELSE 10 * DigitsToNat(SubSeq(cs, 1, Len(cs) - 1)) + DigitVal(cs[Len(cs)])

\* parseInt(text, 10): an optional sign and the leading digits; NaN when
\* there is no digit.
ParseInt(cs) ==
    LET neg == cs # <<>> /\ Head(cs) = "-"
        body == IF cs # <<>> /\ Head(cs) \in {"-", "+"} THEN Tail(cs) ELSE cs
        ds == TakeWhile(body, DigitSet)
    IN IF ds = <<>> THEN NaN
       ELSE IF neg THEN -DigitsToNat(ds) ELSE DigitsToNat(ds)

\* parseFloat(text): an optional sign, digits, and at most one "." followed
\* by digits; NaN when there is no digit.
ParseFloat(cs) ==
    LET neg == cs # <<>> /\ Head(cs) = "-"
        body == IF cs # <<>> /\ Head(cs) \in {"-", "+"} THEN Tail(cs) ELSE cs
        ip == TakeWhile(body, DigitSet)
        rest == SubSeq(body, Len(ip) + 1, Len(body))
        fp == IF rest # <<>> /\ Head(rest) = "."
              THEN TakeWhile(Tail(rest), DigitSet) ELSE <<>>
        mag == DigitsToNat(ip \o fp)
    IN IF ip = <<>> /\ fp = <<>> THEN NaN
       ELSE Rat(IF neg THEN -mag ELSE mag, Pow10(Len(fp)))

\* text.replace(/,/g, '')
RECURSIVE StripCommas(_)
StripCommas(cs) ==
    IF cs = <<>> THEN <<>>
    ELSE (IF Head(cs) = "," THEN <<>> ELSE <<Head(cs)>>) \o StripCommas(Tail(cs))

\* Mutant of parseNumber: the thousands separators are not removed.
parseNumber_keepCommas(numString) == ParseInt(numString)

\* parseNumber (aggregate-reports.ts:64-67)
parseNumber(numString) == ParseInt(StripCommas(numString))

\* The first match of /([\d.]+)ms/ in cs: its group, or <<>> when the
\* pattern does not match.
MatchMs(cs) ==
    LET cls == DigitSet \cup {"."}
        run(i) == TakeWhile(SubSeq(cs, i, Len(cs)), cls)
        ok(i) == /\ run(i) # <<>>
                 /\ i + Len(run(i)) + 1 <= Len(cs)
                 /\ cs[i + Len(run(i))] = "m"
                 /\ cs[i + Len(run(i)) + 1] = "s"
        starts == {i \in 1..Len(cs) : ok(i)}
    IN IF starts = {} THEN <<>>
       ELSE run(CHOOSE i \in starts : \A j \in starts : i <= j)

\* parseMs (aggregate-reports.ts:58-62)
parseMs(msString) ==
    IF MatchMs(msString) = <<>> THEN Zero ELSE ParseFloat(MatchMs(msString))

\* parseConversionOverhead (aggregate-reports.ts:81-85)
parseConversionOverhead(text) ==
    IF MatchMs(text) = <<>> THEN Zero ELSE ParseFloat(MatchMs(text))

AllIn(cs, set) == \A i \in 1..Len(cs) : cs[i] \in set

(***************************************************************************)
(*                 DELTA ENGINE AND REPORT WRITER                          *)
(*                                                                         *)
(* A FormatMetrics is a record with format, preflightTokenCount,           *)
(* responsePromptTokenCount, responseTotalTokenCount (a count or           *)
(* Undefined), conversionMs and apiLatencyMs (rationals).  A timestamp is  *)
(* the rank of its ISO-8601 string in lexicographic order, 0 standing for  *)
(* the empty string.                                                       *)
(***************************************************************************)

\* Mutant of computeDeltas: the savings ratio is not scaled to a percentage.
computeDeltas_fraction(jsonMetrics, toonMetrics, markdownMetrics) ==
    LET D(base, cmp) ==
            [tokenSavings |-> base.preflightTokenCount - cmp.preflightTokenCount,
             tokenSavingsPercent |->
                IF base.preflightTokenCount # 0
                THEN Rat(base.preflightTokenCount - cmp.preflightTokenCount,
                         base.preflightTokenCount)
                ELSE Zero,
             apiLatencyDeltaMs |-> RatSub(base.apiLatencyMs, cmp.apiLatencyMs),
             conversionOverheadMs |-> RatSub(cmp.conversionMs, base.conversionMs)]
    IN [toonVsJson |-> D(jsonMetrics, toonMetrics),
        markdownVsJson |-> D(jsonMetrics, markdownMetrics),
        markdownVsToon |-> D(toonMetrics, markdownMetrics)]

\* Mutant of computeDeltas: the conversion overhead of MARKDOWN vs TOON is
\* taken baseline minus comparison.
computeDeltas_overheadFlipped(jsonMetrics, toonMetrics, markdownMetrics) ==
    LET D(base, cmp, flip) ==
            [tokenSavings |-> base.preflightTokenCount - cmp.preflightTokenCount,
             tokenSavingsPercent |->
                IF base.preflightTokenCount # 0
                THEN Rat((base.preflightTokenCount - cmp.preflightTokenCount) * 100,
                         base.preflightTokenCount)
                ELSE Zero,
             apiLatencyDeltaMs |-> RatSub(base.apiLatencyMs, cmp.apiLatencyMs),
             conversionOverheadMs |->
                IF flip THEN RatSub(base.conversionMs, cmp.conversionMs)
                ELSE RatSub(cmp.conversionMs, base.conversionMs)]
    IN [toonVsJson |-> D(jsonMetrics, toonMetrics, FALSE),
        markdownVsJson |-> D(jsonMetrics, markdownMetrics, FALSE),
        markdownVsToon |-> D(toonMetrics, markdownMetrics, TRUE)]

\* computeDeltas (toon-vs-json.ts:354-391)
computeDeltas(jsonMetrics, toonMetrics, markdownMetrics) ==
    [toonVsJson |->
        [tokenSavings |->
            jsonMetrics.preflightTokenCount - toonMetrics.preflightTokenCount,
         tokenSavingsPercent |->
            IF jsonMetrics.preflightTokenCount # 0
            THEN Rat((jsonMetrics.preflightTokenCount
                        - toonMetrics.preflightTokenCount) * 100,
                     jsonMetrics.preflightTokenCount)
            ELSE Zero,
         apiLatencyDeltaMs |->
            RatSub(jsonMetrics.apiLatencyMs, toonMetrics.apiLatencyMs),
         conversionOverheadMs |->
            RatSub(toonMetrics.conversionMs, jsonMetrics.conversionMs)],
     markdownVsJson |->
        [tokenSavings |->
            jsonMetrics.preflightTokenCount - markdownMetrics.preflightTokenCount,
         tokenSavingsPercent |->
            IF jsonMetrics.preflightTokenCount # 0
            THEN Rat((jsonMetrics.preflightTokenCount
                        - markdownMetrics.preflightTokenCount) * 100,
                     jsonMetrics.preflightTokenCount)
            ELSE Zero,
         apiLatencyDeltaMs |->
            RatSub(jsonMetrics.apiLatencyMs, markdownMetrics.apiLatencyMs),
         conversionOverheadMs |->
            RatSub(markdownMetrics.conversionMs, jsonMetrics.conversionMs)],
     markdownVsToon |->
        [tokenSavings |->
            toonMetrics.preflightTokenCount - markdownMetrics.preflightTokenCount,
         tokenSavingsPercent |->
            IF toonMetrics.preflightTokenCount # 0
            THEN Rat((toonMetrics.preflightTokenCount
                        - markdownMetrics.preflightTokenCount) * 100,
                     toonMetrics.preflightTokenCount)
            ELSE Zero,
         apiLatencyDeltaMs |->
            RatSub(toonMetrics.apiLatencyMs, markdownMetrics.apiLatencyMs),
         conversionOverheadMs |->
            RatSub(markdownMetrics.conversionMs, toonMetrics.conversionMs)]]

\* formats.find((f) => f.format === name) is not undefined
HasFormat(formats, name) == \E i \in 1..Len(formats) : formats[i].format = name

\* formats.find((f) => f.format === name): the first such entry.
FindFormat(formats, name) ==
    LET hits == {i \in 1..Len(formats) : formats[i].format = name}
    IN formats[CHOOSE i \in hits : \A j \in hits : i <= j]

\* latencies.sort((a, b) => a.latency - b.latency) (toon-vs-json.ts:564,
\* aggregate-reports.ts:360).  Array.prototype.sort is stable; on a short
\* array it is an insertion sort: each element moves left past the elements
\* the comparator puts after it (a.latency - b.latency > 0) and no further.
RECURSIVE InsertByLatency(_, _)
InsertByLatency(sorted, x) ==
    IF sorted = <<>> THEN <<x>>
    ELSE IF RatLess(x.latency, sorted[Len(sorted)].latency)
    THEN InsertByLatency(SubSeq(sorted, 1, Len(sorted) - 1), x)
         \o <<sorted[Len(sorted)]>>
    ELSE sorted \o <<x>>

RECURSIVE SortByLatency(_)
SortByLatency(list) ==
    IF list = <<>> THEN <<>>
    ELSE InsertByLatency(SortByLatency(SubSeq(list, 1, Len(list) - 1)),
                         list[Len(list)])

\* Mutant of FastestOf: among equal latencies the last format wins.
FastestOf_lastOnTie(jsonLatency, toonLatency, markdownLatency) ==
    IF ~RatLess(jsonLatency, markdownLatency) /\ ~RatLess(toonLatency, markdownLatency)
    THEN "MARKDOWN"
    ELSE IF ~RatLess(jsonLatency, toonLatency) THEN "TOON"
    ELSE "JSON"

\* The first element of the list JSON, TOON, MARKDOWN after the sort
\* (toon-vs-json.ts:559-565, aggregate-reports.ts:355-361).
FastestOf(jsonLatency, toonLatency, markdownLatency) ==
    SortByLatency(<<[format |-> "JSON", latency |-> jsonLatency],
                    [format |-> "TOON", latency |-> toonLatency],
                    [format |-> "MARKDOWN", latency |-> markdownLatency]>>)[1].format

\* getFastestFormat (toon-vs-json.ts:554-566)
getFastestFormat(jsonMetrics, toonMetrics, markdownMetrics) ==
    FastestOf(jsonMetrics.apiLatencyMs, toonMetrics.apiLatencyMs,
              markdownMetrics.apiLatencyMs)

(***************************************************************************)
(* A report is a sequence of lines.  A line is [k |-> kind, a |-> fields]: *)
(* the kind stands for the fixed text of the line, the fields are the      *)
(* texts the template interpolates into it.  Blank lines and the lines of  *)
(* the excerpt and glossary sections carry no data and are left out.       *)
(*   title         # Gemini Benchmark Report                               *)
(*   modelUsed     - **Model used:** <model>                               *)
(*   runTimestamp  - **Run timestamp:** <timestamp>                        *)
(*   h2, h3        ## <title>, ### <title>                                 *)
(*   tokenLine     - <pair>: <winner> saved <n> tokens (<p>%)              *)
(*   fastest       - Fastest format: <format>                              *)
(*   overheadLine  - <format> conversion overhead: <ms>                    *)
(*   tableHeader   Format | Input tokens sent | ...                        *)
(*   tableSep      --- | --- | ...                                         *)
(*   row           <format> | <n> | <n> | <n> | <ms> | <ms>                *)
(***************************************************************************)
Line(kind, fields) == [k |-> kind, a |-> fields]

\* value?.toLocaleString() ?? 'n/a'
CountCell(v) == IF v = Undefined THEN <<"n", "/", "a">> ELSE ToLocaleString(v)

\* One table row of generateMarkdownReport (toon-vs-json.ts:494-505)
MetricsRow(metrics) ==
    Line("row", <<metrics.format,
                  ToLocaleString(metrics.preflightTokenCount),
                  CountCell(metrics.responsePromptTokenCount),
                  CountCell(metrics.responseTotalTokenCount),
                  formatMs(metrics.conversionMs),
                  formatMs(metrics.apiLatencyMs)>>)

\* generateMarkdownReport (toon-vs-json.ts:487-552)
generateMarkdownReport(sum) ==
    LET jsonMetrics == FindFormat(sum.formats, "JSON")
        toonMetrics == FindFormat(sum.formats, "TOON")
        markdownMetrics == FindFormat(sum.formats, "MARKDOWN")
        toonVsJson == sum.deltas.toonVsJson
        markdownVsJson == sum.deltas.markdownVsJson
        markdownVsToon == sum.deltas.markdownVsToon
        rows == [i \in 1..Len(sum.formats) |-> MetricsRow(sum.formats[i])]
    IN <<Line("title", <<>>),
         Line("modelUsed", <<sum.model>>),
         Line("dataset", <<>>),
         Line("runTimestamp", <<sum.timestamp>>),
         Line("h2", <<"Executive Summary">>),
         Line("h3", <<"Token Efficiency">>),
         Line("tokenLine", <<"TOON vs JSON",
                 IF toonVsJson.tokenSavings > 0 THEN "TOON" ELSE "JSON",
                 ToLocaleString(Abs(toonVsJson.tokenSavings)),
                 ToFixed(toonVsJson.tokenSavingsPercent, 1)>>),
         Line("tokenLine", <<"MARKDOWN vs JSON",
                 IF markdownVsJson.tokenSavings > 0 THEN "MARKDOWN" ELSE "JSON",
                 ToLocaleString(Abs(markdownVsJson.tokenSavings)),
                 ToFixed(markdownVsJson.tokenSavingsPercent, 1)>>),
         Line("tokenLine", <<"MARKDOWN vs TOON",
                 IF markdownVsToon.tokenSavings > 0 THEN "MARKDOWN" ELSE "TOON",
                 ToLocaleString(Abs(markdownVsToon.tokenSavings)),
                 ToFixed(markdownVsToon.tokenSavingsPercent, 1)>>),
         Line("h3", <<"Latency">>),
         Line("fastest",
              <<getFastestFormat(jsonMetrics, toonMetrics, markdownMetrics)>>),
         Line("overheadLine",
              <<"TOON", formatMs(toonVsJson.conversionOverheadMs)>>),
         Line("overheadLine",
              <<"MARKDOWN", formatMs(markdownVsJson.conversionOverheadMs)>>),
         Line("h2", <<"Detailed Metrics">>),
         Line("tableHeader", <<>>),
         Line("tableSep", <<>>)>>
       \o rows
       \o <<Line("h2", <<"Response Highlights">>),
            Line("h3", <<"JSON input">>),
            Line("h3", <<"TOON input">>),
            Line("h3", <<"MARKDOWN input">>),
            Line("h2", <<"Metric Definitions">>)>>

(***************************************************************************)
(*                          REPORT READER                                  *)
(***************************************************************************)
\* What the reader's text tests see of a line.
\* line.includes('Format | Input tokens sent')
IncludesTableHeader(line) == line.k \in {"tableHeader"}
\* line.includes('|')
IncludesPipe(line) == line.k \in {"tableHeader", "tableSep", "row"}
\* line.startsWith('##')
StartsWithHashes(line) == line.k \in {"h2", "h3"}
\* line.split('|').map(p => p.trim()).filter(p => p)
Parts(line) ==
    IF line.k = "row" THEN line.a
    ELSE IF line.k = "tableHeader"
    THEN <<"Format", "Input tokens sent", "Prompt tokens in response",
           "Total tokens in response", "Data prep time", "Gemini response time">>
    ELSE IF line.k = "tableSep" THEN <<"---", "---", "---", "---", "---", "---">>
    ELSE <<>>
\* content.match(/\*\*Model used:\*\* (.+)/) finds its match in this line
MatchesModelUsed(line) == line.k = "modelUsed"
\* content.match(/\*\*Run timestamp:\*\* (.+)/) finds its match in this line
MatchesRunTimestamp(line) == line.k = "runTimestamp"
\* line.includes('<pair>:') for '<pair>' one of 'TOON vs JSON',
\* 'MARKDOWN vs JSON', 'MARKDOWN vs TOON'
IncludesPair(line, pair) == line.k \in {"tokenLine", "sumTokenLine"} /\ line.a[1] = pair
\* line.includes('<format> conversion overhead:')
IncludesOverhead(line, format) ==
    line.k \in {"overheadLine", "sumOverheadLine"} /\ line.a[1] = format

\* lines.find(test): the index of the first line passing the test, 0 if none.
FirstIndex(lines, Test(_)) ==
    LET hits == {i \in 1..Len(lines) : Test(lines[i])}
    IN IF hits = {} THEN 0 ELSE CHOOSE i \in hits : \A j \in hits : i <= j

\* parseTokenSavings (aggregate-reports.ts:69-79): the line is
\* "... saved <a[3]> tokens (<a[4]>%)" and the pattern is
\* /saved ([\d,]+) tokens \(([\d.]+)%\)/.
parseTokenSavings(line) ==
    IF /\ line.a[3] # <<>> /\ AllIn(line.a[3], DigitSet \cup {","})
       /\ line.a[4] # <<>> /\ AllIn(line.a[4], DigitSet \cup {"."})
    THEN [savings |-> parseNumber(line.a[3]), percent |-> ParseFloat(line.a[4])]
    ELSE [savings |-> 0, percent |-> Zero]

NA == <<"n", "/", "a">>

\* One table row read back (aggregate-reports.ts:111-126)
RowMetrics(parts) ==
    [format |-> parts[1],
     preflightTokenCount |-> parseNumber(parts[2]),
     responsePromptTokenCount |-> IF parts[3] = NA THEN 0 ELSE parseNumber(parts[3]),
     responseTotalTokenCount |-> IF parts[4] = NA THEN 0 ELSE parseNumber(parts[4]),
     conversionMs |-> parseMs(parts[5]),
     apiLatencyMs |-> parseMs(parts[6])]

\* The loop over the lines (aggregate-reports.ts:100-134), from line i on.
RECURSIVE TableRows(_, _, _)
TableRows(lines, i, inTable) ==
    IF i > Len(lines) THEN <<>>
    ELSE IF IncludesTableHeader(lines[i]) THEN TableRows(lines, i + 1, TRUE)
    ELSE LET parts == Parts(lines[i])
             here == IF /\ inTable /\ IncludesPipe(lines[i])
                        /\ Len(parts) >= 6
                        /\ parts[1] # "Format" /\ parts[1] # "---"
                     THEN <<RowMetrics(parts)>> ELSE <<>>
         IN IF inTable /\ StartsWithHashes(lines[i]) THEN here
            ELSE here \o TableRows(lines, i + 1, inTable)

\* A directory entry: the lines readFile returns, or an entry readFile
\* throws on.
File(lines) == [readable |-> TRUE, lines |-> lines]
Unreadable == [readable |-> FALSE, lines |-> <<>>]

\* The deltas built by parseMarkdownReport (aggregate-reports.ts:145-181)
ReadDeltas(lines, jsonMetrics, toonMetrics, markdownMetrics) ==
    LET NoSavings == [savings |-> 0, percent |-> Zero]
        IsToonVsJson(l) == IncludesPair(l, "TOON vs JSON")
        IsMarkdownVsJson(l) == IncludesPair(l, "MARKDOWN vs JSON")
        IsMarkdownVsToon(l) == IncludesPair(l, "MARKDOWN vs TOON")
        IsToonOverhead(l) == IncludesOverhead(l, "TOON")
        IsMarkdownOverhead(l) == IncludesOverhead(l, "MARKDOWN")
        toonVsJsonLine == FirstIndex(lines, IsToonVsJson)
        markdownVsJsonLine == FirstIndex(lines, IsMarkdownVsJson)
        markdownVsToonLine == FirstIndex(lines, IsMarkdownVsToon)
        toonVsJsonSavings ==
            IF toonVsJsonLine # 0
            THEN parseTokenSavings(lines[toonVsJsonLine]) ELSE NoSavings
        markdownVsJsonSavings ==
            IF markdownVsJsonLine # 0
            THEN parseTokenSavings(lines[markdownVsJsonLine]) ELSE NoSavings
        markdownVsToonSavings ==
            IF markdownVsToonLine # 0
            THEN parseTokenSavings(lines[markdownVsToonLine]) ELSE NoSavings
        toonOverheadLine == FirstIndex(lines, IsToonOverhead)
        markdownOverheadLine == FirstIndex(lines, IsMarkdownOverhead)
        toonOverhead ==
            IF toonOverheadLine # 0
            THEN parseConversionOverhead(lines[toonOverheadLine].a[2]) ELSE Zero
        markdownOverhead ==
            IF markdownOverheadLine # 0
            THEN parseConversionOverhead(lines[markdownOverheadLine].a[2]) ELSE Zero
    IN [toonVsJson |->
           [tokenSavings |-> toonVsJsonSavings.savings,
            tokenSavingsPercent |-> toonVsJsonSavings.percent,
            apiLatencyDeltaMs |->
                RatSub(jsonMetrics.apiLatencyMs, toonMetrics.apiLatencyMs),
            conversionOverheadMs |-> toonOverhead],
        markdownVsJson |->
           [tokenSavings |-> markdownVsJsonSavings.savings,
            tokenSavingsPercent |-> markdownVsJsonSavings.percent,
            apiLatencyDeltaMs |->
                RatSub(jsonMetrics.apiLatencyMs, markdownMetrics.apiLatencyMs),
            conversionOverheadMs |-> markdownOverhead],
        markdownVsToon |->
           [tokenSavings |-> markdownVsToonSavings.savings,
            tokenSavingsPercent |-> markdownVsToonSavings.percent,
            apiLatencyDeltaMs |->
                RatSub(toonMetrics.apiLatencyMs, markdownMetrics.apiLatencyMs),
            conversionOverheadMs |-> RatSub(markdownOverhead, toonOverhead)]]

\* Mutant of parseMarkdownReport: a format that is not in the table counts
\* as a row of zeros (optional chaining in the place of the property reads
\* at lines 166-178), so that nothing throws.
parseMarkdownReport_lenient(file) ==
    IF ~file.readable THEN [report |-> Null, why |-> "exception"]
    ELSE
    LET lines == file.lines
        modelMatch == FirstIndex(lines, MatchesModelUsed)
        timestampMatch == FirstIndex(lines, MatchesRunTimestamp)
        model == IF modelMatch # 0 THEN lines[modelMatch].a[1] ELSE "unknown"
        timestamp == IF timestampMatch # 0 THEN lines[timestampMatch].a[1] ELSE 0
        formats == TableRows(lines, 1, FALSE)
        FindOrZero(name) ==
            IF HasFormat(formats, name) THEN FindFormat(formats, name)
            ELSE [format |-> name, preflightTokenCount |-> 0,
                  responsePromptTokenCount |-> 0, responseTotalTokenCount |-> 0,
                  conversionMs |-> Zero, apiLatencyMs |-> Zero]
    IN IF Len(formats) # 3 THEN [report |-> Null, why |-> "rows"]
       ELSE [report |->
                [timestamp |-> timestamp,
                 model |-> model,
                 formats |-> formats,
                 deltas |-> ReadDeltas(lines, FindOrZero("JSON"),
                                       FindOrZero("TOON"), FindOrZero("MARKDOWN"))],
             why |-> "ok"]

\* parseMarkdownReport (aggregate-reports.ts:87-193).  The result is
\* [why |-> "ok", report |-> the BenchmarkReport] or a null return:
\* [why |-> "rows"] is line 138 (after the warning), [why |-> "exception"]
\* is line 191 (readFile threw, or a property of undefined was read at
\* lines 166-178).
parseMarkdownReport(file) ==
    IF ~file.readable THEN [report |-> Null, why |-> "exception"]
    ELSE
    LET lines == file.lines
        modelMatch == FirstIndex(lines, MatchesModelUsed)
        timestampMatch == FirstIndex(lines, MatchesRunTimestamp)
        model == IF modelMatch # 0 THEN lines[modelMatch].a[1] ELSE "unknown"
        timestamp == IF timestampMatch # 0 THEN lines[timestampMatch].a[1] ELSE 0
        formats == TableRows(lines, 1, FALSE)
        jsonMetrics == FindFormat(formats, "JSON")
        toonMetrics == FindFormat(formats, "TOON")
        markdownMetrics == FindFormat(formats, "MARKDOWN")
    IN IF Len(formats) # 3 THEN [report |-> Null, why |-> "rows"]
       ELSE IF \/ ~HasFormat(formats, "JSON") \/ ~HasFormat(formats, "TOON")
               \/ ~HasFormat(formats, "MARKDOWN")
       THEN [report |-> Null, why |-> "exception"]
       ELSE [report |->
                [timestamp |-> timestamp,
                 model |-> model,
                 formats |-> formats,
                 deltas |-> ReadDeltas(lines, jsonMetrics, toonMetrics,
                                       markdownMetrics)],
             why |-> "ok"]

\* The caller's test "if (report)" (aggregate-reports.ts:211)
IsReport(result) == result.why = "ok"

(***************************************************************************)
(*        ONE REPORT THROUGH WRITER AND READER  (SpecReport)               *)
(***************************************************************************)
\* Measurements one format can come back with: token counts from the model
\* client (0 when countTokens gives none, Undefined when usageMetadata is
\* absent) and durations in ms.
MetricChoices ==
    { [preflightTokenCount |-> 1404, responsePromptTokenCount |-> 1398,
       responseTotalTokenCount |-> 1667,
       conversionMs |-> Rat(10, 100), apiLatencyMs |-> Rat(753300, 100)],
      [preflightTokenCount |-> 1004, responsePromptTokenCount |-> 999,
       responseTotalTokenCount |-> 1195,
       conversionMs |-> Rat(94, 100), apiLatencyMs |-> Rat(671204, 100)],
      [preflightTokenCount |-> 0, responsePromptTokenCount |-> Undefined,
       responseTotalTokenCount |-> Undefined,
       conversionMs |-> Rat(5, 100), apiLatencyMs |-> Rat(99995, 100)],
      [preflightTokenCount |-> 1048576, responsePromptTokenCount |-> 1048570,
       responseTotalTokenCount |-> 1050000,
       conversionMs |-> Rat(125, 100), apiLatencyMs |-> Rat(753300, 100)] }

\* The FormatMetrics analyzeFormat returns (toon-vs-json.ts:341-351)
Metrics(format, m) ==
    [format |-> format,
     conversionMs |-> m.conversionMs,
     preflightTokenCount |-> m.preflightTokenCount,
     apiLatencyMs |-> m.apiLatencyMs,
     responsePromptTokenCount |-> m.responsePromptTokenCount,
     responseTotalTokenCount |-> m.responseTotalTokenCount]

\* The formats a trial can end with (toon-vs-json.ts:297)
TrialFormats ==
    {<<Metrics("JSON", j), Metrics("TOON", t), Metrics("MARKDOWN", m)>> :
        j \in MetricChoices, t \in MetricChoices, m \in MetricChoices}

\* runOnce: the deltas of the three metrics (toon-vs-json.ts:287)
RComputeDeltas ==
    /\ rpc = "metrics"
    /\ summary' = [summary EXCEPT !.deltas =
                      computeDeltas(summary.formats[1], summary.formats[2],
                                    summary.formats[3])]
    /\ rpc' = "deltas"
    /\ UNCHANGED <<markdown, parsed, runnerVars, aggVars, toolVars>>

\* persistMarkdownReport: the text of the report (toon-vs-json.ts:482)
RGenerate ==
    /\ rpc = "deltas"
    /\ markdown' = generateMarkdownReport(summary)
    /\ rpc' = "written"
    /\ UNCHANGED <<summary, parsed, runnerVars, aggVars, toolVars>>

\* The aggregator reads the report back (aggregate-reports.ts:210)
RParse ==
    /\ rpc = "written"
    /\ parsed' = parseMarkdownReport(File(markdown))
    /\ rpc' = "parsed"
    /\ UNCHANGED <<summary, markdown, runnerVars, aggVars, toolVars>>

InitReport ==
    /\ RunnerIdle
    /\ AggIdle
    /\ ToolIdle
    /\ rpc = "metrics"
    /\ \E fs \in TrialFormats :
          summary = [model |-> MODEL_NAME, timestamp |-> 1, formats |-> fs,
                     deltas |-> <<>>]
    /\ markdown = <<>>
    /\ parsed = [why |-> "none", report |-> Null]

NextReport == RComputeDeltas \/ RGenerate \/ RParse

SpecReport == InitReport /\ [][NextReport]_vars

PairNames == {"toonVsJson", "markdownVsJson", "markdownVsToon"}
\* The baseline and the comparison format of each pair.
Baseline(pair) == IF pair = "markdownVsToon" THEN "TOON" ELSE "JSON"
Comparison(pair) == IF pair = "toonVsJson" THEN "TOON" ELSE "MARKDOWN"

(* C4: for every report parseMarkdownReport accepts, tokenSavings and
   tokenSavingsPercent of each pair of the returned deltas equal what the
   Delta Engine computes from the parsed table rows, not what the
   executive-summary line says. *)
C4_ReadDeltasRecomputed ==
    (rpc = "parsed" /\ IsReport(parsed)) =>
        LET fs == parsed.report.formats
            engine == computeDeltas(FindFormat(fs, "JSON"), FindFormat(fs, "TOON"),
                                    FindFormat(fs, "MARKDOWN"))
        IN \A pair \in PairNames :
              /\ parsed.report.deltas[pair].tokenSavings
                    = engine[pair].tokenSavings
              /\ parsed.report.deltas[pair].tokenSavingsPercent
                    = engine[pair].tokenSavingsPercent

TokensPresent(formats) ==
    \A i \in 1..Len(formats) :
        /\ formats[i].responsePromptTokenCount # Undefined
        /\ formats[i].responseTotalTokenCount # Undefined

(* C5: round trip.  For a trial summary with one JSON, one TOON and one
   MARKDOWN entry whose token counts are present, parsing the generated
   report gives three rows in the same order whose token counts equal the
   originals and whose durations equal the originals rounded to one
   decimal. *)
C5_RoundTrip ==
    (rpc = "parsed" /\ TokensPresent(summary.formats)) =>
        /\ IsReport(parsed)
        /\ Len(parsed.report.formats) = 3
        /\ \A i \in 1..3 :
              LET o == summary.formats[i]
                  r == parsed.report.formats[i]
              IN /\ r.format = o.format
                 /\ r.preflightTokenCount = o.preflightTokenCount
                 /\ r.responsePromptTokenCount = o.responsePromptTokenCount
                 /\ r.responseTotalTokenCount = o.responseTotalTokenCount
                 /\ r.conversionMs = RoundToTenth(o.conversionMs)
                 /\ r.apiLatencyMs = RoundToTenth(o.apiLatencyMs)

C5_Witness ==
    /\ rpc = "parsed"
    /\ TokensPresent(summary.formats)
    /\ IsReport(parsed)
    /\ summary.formats[1].preflightTokenCount >= 1000000
    /\ summary.formats[2].preflightTokenCount \in 1000..999999
    /\ parsed.report.formats[2].conversionMs # summary.formats[2].conversionMs

(* C6: for each pair (baseline A, comparison B) computeDeltas returns
   tokenSavings = A.preflight - B.preflight, tokenSavingsPercent =
   tokenSavings / A.preflight * 100 when A.preflight is not 0, and 0 when
   it is 0; preflight 1404 against 1004 gives 400 and 28.49 percent. *)
C6_TokenSavings ==
    rpc \in {"deltas", "written", "parsed"} =>
        \A pair \in PairNames :
            LET A == FindFormat(summary.formats, Baseline(pair)).preflightTokenCount
                B == FindFormat(summary.formats, Comparison(pair)).preflightTokenCount
                d == summary.deltas[pair]
            IN /\ d.tokenSavings = A - B
               /\ A # 0 => RatMulInt(d.tokenSavingsPercent, A)
                             = RatOfInt(d.tokenSavings * 100)
               /\ A = 0 => d.tokenSavingsPercent = Zero
               /\ (A = 1404 /\ B = 1004) =>
                     /\ d.tokenSavings = 400
                     /\ ToFixed(d.tokenSavingsPercent, 2) = <<"2", "8", ".", "4", "9">>

C6_Witness ==
    /\ rpc = "deltas"
    /\ summary.formats[1].preflightTokenCount = 0
    /\ summary.formats[2].preflightTokenCount = 1404
    /\ summary.formats[3].preflightTokenCount = 1004
    /\ summary.deltas.toonVsJson.tokenSavingsPercent = Zero
    /\ summary.deltas.markdownVsToon.tokenSavings = 400

(* C7: apiLatencyDeltaMs is baseline latency minus comparison latency and
   conversionOverheadMs is comparison conversion time minus baseline
   conversion time, for all three pairs; computing the deltas leaves the
   three FormatMetrics unchanged. *)
C7_DurationDeltaSigns ==
    /\ [](rpc \in {"deltas", "written", "parsed"} =>
            \A pair \in PairNames :
                LET A == FindFormat(summary.formats, Baseline(pair))
                    B == FindFormat(summary.formats, Comparison(pair))
                    d == summary.deltas[pair]
                IN /\ RatAdd(d.apiLatencyDeltaMs, B.apiLatencyMs) = A.apiLatencyMs
                   /\ RatAdd(d.conversionOverheadMs, A.conversionMs) = B.conversionMs)
    /\ [][rpc = "metrics" => summary'.formats = summary.formats]_vars

C7_Witness ==
    /\ rpc = "deltas"
    /\ RatLess(summary.formats[1].apiLatencyMs, summary.formats[2].apiLatencyMs)
    /\ summary.deltas.toonVsJson.apiLatencyDeltaMs.n < 0
    /\ RatLess(summary.formats[3].conversionMs, summary.formats[1].conversionMs)
    /\ summary.deltas.markdownVsJson.conversionOverheadMs.n < 0

(***************************************************************************)
(*            THE REPORTS DIRECTORY AND THE AGGREGATOR  (SpecAgg)          *)
(*                                                                         *)
(* TJM_Reports is a function from file names to files.  A file name is     *)
(* [base, ts, suffix, ext]: "benchmark-<ts>.md", the raw responses         *)
(* "benchmark-<ts>-<format>-response.json", and the two files of the       *)
(* aggregator, "OVERALL_COMPARISON_SUMMARY.md" and ".json".  A timestamp   *)
(* is the rank of its ISO string (toISOString gives strings of one width,  *)
(* so the order of the strings is the order of the ranks, and replacing    *)
(* ':' and '.' by '-' in filenameSafeTimestamp keeps it); the empty        *)
(* string is rank 0.                                                       *)
(*                                                                         *)
(* The directory changes only between aggregation runs: the trial runner   *)
(* persists a trial, a stored report loses its tail (a write that did not  *)
(* complete, an edit) or becomes unreadable.  One aggregation run is       *)
(* AggStart, one AggParse per listed file, then AggNoReports or AggWrite;  *)
(* each run is a process of its own.                                       *)
(***************************************************************************)
\* baseFilename(timestamp) + '.md' (toon-vs-json.ts:480-481, 706-712)
ReportName(ts) == [base |-> "benchmark", ts |-> ts, suffix |-> "", ext |-> "md"]
\* `${baseName}-${format.toLowerCase()}-response.json` (toon-vs-json.ts:698)
ResponseName(ts, format) ==
    [base |-> "benchmark", ts |-> ts, suffix |-> format, ext |-> "json"]
\* aggregate-reports.ts:378 and 382
SummaryMd == [base |-> "OVERALL_COMPARISON_SUMMARY", ts |-> 0, suffix |-> "",
              ext |-> "md"]
SummaryJson == [base |-> "OVERALL_COMPARISON_SUMMARY", ts |-> 0, suffix |-> "",
                ext |-> "json"]

\* The order Array.prototype.sort() gives the names of the .md files: by
\* UTF-16 code units, so 'O...' (0x4F) comes before 'b...' (0x62), and the
\* benchmark reports follow in the order of their timestamps.
NameBefore(a, b) ==
    \/ a.base = "OVERALL_COMPARISON_SUMMARY" /\ b.base = "benchmark"
    \/ a.base = b.base /\ a.ts < b.ts

\* files.sort() (aggregate-reports.ts:202)
RECURSIVE SortNames(_)
SortNames(names) ==
    IF names = {} THEN <<>>
    ELSE LET first == CHOOSE n \in names : \A m \in names \ {n} : NameBefore(n, m)
         IN <<first>> \o SortNames(names \ {first})

\* writeFile(path, content): creates or replaces the entry.
WriteFile(dir, name, file) ==
    [n \in (DOMAIN dir) \cup {name} |-> IF n = name THEN file ELSE dir[n]]

\* Trials the runner can end with: TOON and MARKDOWN smaller than JSON;
\* TOON larger than JSON and a MARKDOWN response without usageMetadata.
MetricsWith(tokens) == CHOOSE m \in MetricChoices : m.preflightTokenCount = tokens
StoredTrials ==
    { <<Metrics("JSON", MetricsWith(1404)), Metrics("TOON", MetricsWith(1004)),
        Metrics("MARKDOWN", MetricsWith(1004))>>,
      <<Metrics("JSON", MetricsWith(1004)), Metrics("TOON", MetricsWith(1404)),
        Metrics("MARKDOWN", MetricsWith(0))>> }

\* The ComparisonSummary of runOnce (toon-vs-json.ts:287-302)
TrialSummary(fs, ts) ==
    [model |-> MODEL_NAME, timestamp |-> ts, formats |-> fs,
     deltas |-> computeDeltas(fs[1], fs[2], fs[3])]

\* Mutant of PersistReports: the report goes to one fixed file name.
PersistReports_fixedName ==
    /\ aggPc \in {"off", "done"}
    /\ Len(written) < MaxReports
    /\ \E fs \in StoredTrials :
          LET ts == Len(written) + 1
              sum == TrialSummary(fs, ts)
              raw == File(<<Line("rawResponse", <<>>)>>)
              withReport == WriteFile(store, ReportName(1),
                                      File(generateMarkdownReport(sum)))
          IN /\ store' = WriteFile(WriteFile(WriteFile(withReport,
                                ResponseName(ts, "json"), raw),
                                ResponseName(ts, "toon"), raw),
                                ResponseName(ts, "markdown"), raw)
             /\ written' = Append(written, sum)
    /\ dirExists' = TRUE
    /\ UNCHANGED <<aggPc, markdownFiles, reports, skipped, aggExit, runs,
                   runnerVars, reportVars,
                   toolVars>>

\* runOnce persists the trial: persistMarkdownReport and persistRawResponses
\* (toon-vs-json.ts:304-305, 478-485, 692-704).  mkdir creates the
\* directory when it is missing.
PersistReports ==
    /\ aggPc \in {"off", "done"}
    /\ Len(written) < MaxReports
    /\ \E fs \in StoredTrials :
          LET ts == Len(written) + 1
              sum == TrialSummary(fs, ts)
              raw == File(<<Line("rawResponse", <<>>)>>)
              withReport == WriteFile(store, ReportName(ts),
                                      File(generateMarkdownReport(sum)))
          IN /\ store' = WriteFile(WriteFile(WriteFile(withReport,
                                ResponseName(ts, "json"), raw),
                                ResponseName(ts, "toon"), raw),
                                ResponseName(ts, "markdown"), raw)
             /\ written' = Append(written, sum)
    /\ dirExists' = TRUE
    /\ UNCHANGED <<aggPc, markdownFiles, reports, skipped, aggExit, runs,
                   runnerVars, reportVars,
                   toolVars>>

\* The number of table rows left in a report that lost its tail.
RowsKept == {2}

\* The lines of a report up to the table separator and the first rows
\* table rows.
Truncated(lines, rows) ==
    LET IsSep(l) == l.k = "tableSep"
    IN SubSeq(lines, 1, FirstIndex(lines, IsSep) + rows)

\* The number of table rows of a stored report.
RowCount(lines) == Cardinality({i \in 1..Len(lines) : lines[i].k = "row"})

\* Environment: a stored trial report is cut short.
TruncateReport(name) ==
    /\ aggPc \in {"off", "done"}
    /\ name \in DOMAIN store
    /\ name.base = "benchmark" /\ name.ext = "md"
    /\ store[name].readable
    /\ RowCount(store[name].lines) = 3
    /\ \E rows \in RowsKept :
          store' = WriteFile(store, name,
                             File(Truncated(store[name].lines, rows)))
    /\ UNCHANGED <<dirExists, written, aggPc, markdownFiles, reports, skipped,
                   aggExit, runs, runnerVars, reportVars,
                   toolVars>>

\* Environment: readFile will throw on a stored trial report.
MakeUnreadable(name) ==
    /\ aggPc \in {"off", "done"}
    /\ name \in DOMAIN store
    /\ name.base = "benchmark" /\ name.ext = "md"
    /\ store[name].readable
    /\ RowCount(store[name].lines) = 3
    /\ store' = WriteFile(store, name, Unreadable)
    /\ UNCHANGED <<dirExists, written, aggPc, markdownFiles, reports, skipped,
                   aggExit, runs, runnerVars, reportVars,
                   toolVars>>

\* ---- aggregateReports (aggregate-reports.ts:199-439) ----

\* if (report) reports.push(report) (aggregate-reports.ts:211-213)
PushReport_zeroForNull(list, result) ==
    IF IsReport(result) THEN Append(list, result.report)
    ELSE Append(list,
           [timestamp |-> 0, model |-> "unknown",
            formats |-> [i \in 1..3 |->
                [format |-> Formats[i], preflightTokenCount |-> 0,
                 responsePromptTokenCount |-> 0, responseTotalTokenCount |-> 0,
                 conversionMs |-> Zero, apiLatencyMs |-> Zero]],
            deltas |-> [p \in {"toonVsJson", "markdownVsJson", "markdownVsToon"} |->
                [tokenSavings |-> 0, tokenSavingsPercent |-> Zero,
                 apiLatencyDeltaMs |-> Zero, conversionOverheadMs |-> Zero]]])

PushReport(list, result) ==
    IF IsReport(result) THEN Append(list, result.report) ELSE list

\* The files left to the loop "for (const file of markdownFiles)" after
\* one iteration (aggregate-reports.ts:208-214)
RestAfter_abortOnNull(files, result) ==
    IF IsReport(result) THEN Tail(files) ELSE <<>>

RestAfter(files, result) == Tail(files)

RECURSIVE SumInt(_)
SumInt(xs) == IF xs = <<>> THEN 0 ELSE Head(xs) + SumInt(Tail(xs))

RECURSIVE SumRat(_)
SumRat(xs) == IF xs = <<>> THEN Zero ELSE RatAdd(Head(xs), SumRat(Tail(xs)))

\* Every table row of every report, in the order the loops at
\* aggregate-reports.ts:273-284 visit them.
RECURSIVE AllRows(_)
AllRows(list) == IF list = <<>> THEN <<>> ELSE Head(list).formats \o AllRows(Tail(list))

\* totals[format] after the loops (aggregate-reports.ts:276-284)
TotalsFor(list, format) ==
    LET IsFormat(r) == r.format = format
        rows == SelectSeq(AllRows(list), IsFormat)
    IN [preflightTokenCount |->
            SumInt([i \in 1..Len(rows) |-> rows[i].preflightTokenCount]),
        responsePromptTokenCount |->
            SumInt([i \in 1..Len(rows) |-> rows[i].responsePromptTokenCount]),
        responseTotalTokenCount |->
            SumInt([i \in 1..Len(rows) |-> rows[i].responseTotalTokenCount]),
        conversionMs |-> SumRat([i \in 1..Len(rows) |-> rows[i].conversionMs]),
        apiLatencyMs |-> SumRat([i \in 1..Len(rows) |-> rows[i].apiLatencyMs]),
        count |-> Len(rows)]

\* totals.deltas[pair] after the loop (aggregate-reports.ts:286-299)
TotalDeltas(list, pair) ==
    [tokenSavings |->
        SumInt([i \in 1..Len(list) |-> list[i].deltas[pair].tokenSavings]),
     tokenSavingsPercent |->
        SumRat([i \in 1..Len(list) |-> list[i].deltas[pair].tokenSavingsPercent]),
     apiLatencyDeltaMs |->
        SumRat([i \in 1..Len(list) |-> list[i].deltas[pair].apiLatencyDeltaMs]),
     conversionOverheadMs |->
        SumRat([i \in 1..Len(list) |-> list[i].deltas[pair].conversionOverheadMs])]

\* averageMetrics[format] (aggregate-reports.ts:306-331)
AverageMetrics(totals, format, count) ==
    [format |-> format,
     preflightTokenCount |-> Rat(totals.preflightTokenCount, count),
     responsePromptTokenCount |-> Rat(totals.responsePromptTokenCount, count),
     responseTotalTokenCount |-> Rat(totals.responseTotalTokenCount, count),
     conversionMs |-> RatDivInt(totals.conversionMs, count),
     apiLatencyMs |-> RatDivInt(totals.apiLatencyMs, count)]

\* averageDeltas[pair] (aggregate-reports.ts:333-352)
AverageDeltas(totals, count) ==
    [tokenSavings |-> Rat(totals.tokenSavings, count),
     tokenSavingsPercent |-> RatDivInt(totals.tokenSavingsPercent, count),
     apiLatencyDeltaMs |-> RatDivInt(totals.apiLatencyDeltaMs, count),
     conversionOverheadMs |-> RatDivInt(totals.conversionOverheadMs, count)]

\* The AggregatedSummary of a non-empty list of reports
\* (aggregate-reports.ts:271-374)
Aggregate(list) ==
    LET count == Len(list)
        model == IF list[1].model = "" THEN "unknown" ELSE list[1].model
        timestamps == {list[i].timestamp : i \in 1..Len(list)}
        averageMetrics ==
            [JSON |-> AverageMetrics(TotalsFor(list, "JSON"), "JSON", count),
             TOON |-> AverageMetrics(TotalsFor(list, "TOON"), "TOON", count),
             MARKDOWN |->
                AverageMetrics(TotalsFor(list, "MARKDOWN"), "MARKDOWN", count)]
    IN [totalRuns |-> count,
        model |-> model,
        dateRange |->
            [earliest |-> CHOOSE t \in timestamps : \A u \in timestamps : t <= u,
             latest |-> CHOOSE t \in timestamps : \A u \in timestamps : u <= t],
        averageMetrics |-> averageMetrics,
        averageDeltas |->
            [toonVsJson |-> AverageDeltas(TotalDeltas(list, "toonVsJson"), count),
             markdownVsJson |->
                AverageDeltas(TotalDeltas(list, "markdownVsJson"), count),
             markdownVsToon |->
                AverageDeltas(TotalDeltas(list, "markdownVsToon"), count)],
        fastestFormat |-> FastestOf(averageMetrics.JSON.apiLatencyMs,
                                    averageMetrics.TOON.apiLatencyMs,
                                    averageMetrics.MARKDOWN.apiLatencyMs)]

\* One table row of generateSummaryReport (aggregate-reports.ts:469-471)
AverageRow(metrics) ==
    Line("row", <<metrics.format,
                  ToLocaleString(MathRound(metrics.preflightTokenCount)),
                  ToLocaleString(MathRound(metrics.responsePromptTokenCount)),
                  ToLocaleString(MathRound(metrics.responseTotalTokenCount)),
                  formatMs(metrics.conversionMs),
                  formatMs(metrics.apiLatencyMs)>>)

\* The three lines under "### <pair>" (aggregate-reports.ts:475-488)
DeltaLines(title, delta) ==
    <<Line("h3", <<title>>),
      Line("sumDeltaTokens", <<ToLocaleString(MathRound(delta.tokenSavings)),
                               ToFixed(delta.tokenSavingsPercent, 2)>>),
      Line("sumDeltaLatency", <<formatMs(delta.apiLatencyDeltaMs)>>),
      Line("sumDeltaOverhead", <<formatMs(delta.conversionOverheadMs)>>)>>

(***************************************************************************)
(* generateSummaryReport (aggregate-reports.ts:441-506).  Kinds of lines:  *)
(*   sumTitle         # Overall Comparison Summary                         *)
(*   sumTotalRuns     - **Total Benchmark Runs:** <n>                      *)
(*   sumModelUsed     - **Model Used:** <model>                            *)
(*   sumDateRange     - **Date Range:** <earliest> to <latest>             *)
(*   sumFastest       - **Fastest Format (avg API latency):** <format>     *)
(*   sumTokenLine     - **<pair>:** <winner> saved <n> tokens (<p>%)       *)
(*   sumFastestLine   - **Fastest format:** <format>                       *)
(*   sumOverheadLine  - **<format> conversion overhead:** <ms>             *)
(*   sumDeltaTokens   - **Token savings:** <n> tokens (<p>%)               *)
(*   sumDeltaLatency  - **API latency delta (...):** <ms>                  *)
(*   sumDeltaOverhead - **Conversion overhead (...):** <ms>                *)
(*   insight          1. / 2. / 3. of "Key Insights"                       *)
(***************************************************************************)
generateSummaryReport(sum) ==
    LET averageMetrics == sum.averageMetrics
        averageDeltas == sum.averageDeltas
        toonPct == averageDeltas.toonVsJson.tokenSavingsPercent
        markdownPct == averageDeltas.markdownVsJson.tokenSavingsPercent
        toonOverhead == averageDeltas.toonVsJson.conversionOverheadMs
        markdownOverhead == averageDeltas.markdownVsJson.conversionOverheadMs
        TokenLine(pair, delta, comparison, baseline) ==
            Line("sumTokenLine",
                 <<pair,
                   IF delta.tokenSavings.n > 0 THEN comparison ELSE baseline,
                   ToLocaleString(Abs(MathRound(delta.tokenSavings))),
                   ToFixed(delta.tokenSavingsPercent, 2)>>)
    IN <<Line("sumTitle", <<>>),
         Line("sumTotalRuns", <<sum.totalRuns>>),
         Line("sumModelUsed", <<sum.model>>),
         Line("sumDateRange", <<sum.dateRange.earliest, sum.dateRange.latest>>),
         Line("sumFastest", <<sum.fastestFormat>>),
         Line("h2", <<"Executive Summary">>),
         Line("h3", <<"Token Efficiency (Average)">>),
         TokenLine("TOON vs JSON", averageDeltas.toonVsJson, "TOON", "JSON"),
         TokenLine("MARKDOWN vs JSON", averageDeltas.markdownVsJson,
                   "MARKDOWN", "JSON"),
         TokenLine("MARKDOWN vs TOON", averageDeltas.markdownVsToon,
                   "MARKDOWN", "TOON"),
         Line("h3", <<"Latency (Average)">>),
         Line("sumFastestLine", <<sum.fastestFormat>>),
         Line("sumOverheadLine", <<"TOON", formatMs(toonOverhead)>>),
         Line("sumOverheadLine", <<"MARKDOWN", formatMs(markdownOverhead)>>),
         Line("h2", <<"Detailed Average Metrics">>),
         Line("tableHeader", <<>>),
         Line("tableSep", <<>>),
         AverageRow(averageMetrics.JSON),
         AverageRow(averageMetrics.TOON),
         AverageRow(averageMetrics.MARKDOWN),
         Line("h2", <<"Comparison Deltas (Average)">>)>>
       \o DeltaLines("TOON vs JSON", averageDeltas.toonVsJson)
       \o DeltaLines("MARKDOWN vs JSON", averageDeltas.markdownVsJson)
       \o DeltaLines("MARKDOWN vs TOON", averageDeltas.markdownVsToon)
       \o <<Line("h2", <<"Key Insights">>),
            Line("insight",
                 <<IF RatLess(markdownPct, toonPct) THEN "TOON" ELSE "MARKDOWN",
                   ToFixed(IF RatLess(toonPct, markdownPct)
                           THEN markdownPct ELSE toonPct, 2)>>),
            Line("insight",
                 <<sum.fastestFormat,
                   formatMs(averageMetrics[sum.fastestFormat].apiLatencyMs)>>),
            Line("insight",
                 <<IF RatLess(toonOverhead, markdownOverhead)
                   THEN "TOON" ELSE "MARKDOWN",
                   formatMs(IF RatLess(markdownOverhead, toonOverhead)
                            THEN markdownOverhead ELSE toonOverhead)>>),
            Line("h2", <<"Metric Definitions">>)>>

\* JSON.stringify(summary, null, 2): the text determines the summary and
\* the summary the text, so the file is represented by the summary.
JsonFile(sum) == File(<<Line("json", <<sum>>)>>)

\* What a finished run leaves in the history: the directory it ran on
\* (listed is FALSE when readdir threw), the number of reports it parsed,
\* whether it wrote the two summary files, what it wrote, the files it
\* skipped and the exit status of its process.
RunRecord(listed, wrote, sum, text) ==
    [listed |-> listed, dir |-> store, parsedCount |-> Len(reports),
     skipped |-> skipped, wrote |-> wrote, summary |-> sum, markdown |-> text,
     exit |-> aggExit]

\* A new process; readdir throws because TJM_Reports does not exist, the
\* promise rejects and the handler at aggregate-reports.ts:508-511 runs.
AggReaddirFails ==
    /\ aggPc \in {"off", "done"}
    /\ Len(runs) < MaxRuns
    /\ ~dirExists
    /\ markdownFiles' = <<>>
    /\ reports' = <<>>
    /\ skipped' = <<>>
    /\ aggExit' = 1
    /\ aggPc' = "done"
    /\ runs' = Append(runs, [listed |-> FALSE, dir |-> store, parsedCount |-> 0,
                             skipped |-> <<>>, wrote |-> FALSE, summary |-> <<>>,
                             markdown |-> <<>>, exit |-> 1])
    /\ UNCHANGED <<dirExists, store, written, runnerVars, reportVars,
                   toolVars>>

\* A new process lists the directory (aggregate-reports.ts:200-206)
AggStart ==
    /\ aggPc \in {"off", "done"}
    /\ Len(runs) < MaxRuns
    /\ dirExists
    /\ markdownFiles' = SortNames({n \in DOMAIN store : n.ext = "md"})
    /\ reports' = <<>>
    /\ skipped' = <<>>
    /\ aggExit' = 0
    /\ aggPc' = "parse"
    /\ UNCHANGED <<dirExists, store, written, runs, runnerVars, reportVars,
                   toolVars>>

\* One iteration of the loop over the files (aggregate-reports.ts:208-214)
AggParse ==
    /\ aggPc = "parse"
    /\ markdownFiles # <<>>
    /\ LET file == Head(markdownFiles)
           result == parseMarkdownReport(store[file])
       IN /\ reports' = PushReport(reports, result)
          /\ skipped' = IF IsReport(result) THEN skipped
                        ELSE Append(skipped, [file |-> file, why |-> result.why])
          /\ markdownFiles' = RestAfter(markdownFiles, result)
    /\ UNCHANGED <<dirExists, store, written, aggPc, aggExit, runs,
                   runnerVars, reportVars,
                   toolVars>>

\* No report was parsed: the message and the return
\* (aggregate-reports.ts:216-219).  The promise resolves.
AggNoReports ==
    /\ aggPc = "parse"
    /\ markdownFiles = <<>>
    /\ Len(reports) = 0
    /\ aggPc' = "done"
    /\ runs' = Append(runs, RunRecord(TRUE, FALSE, <<>>, <<>>))
    /\ UNCHANGED <<dirExists, store, written, markdownFiles, reports, skipped,
                   aggExit, runnerVars, reportVars,
                   toolVars>>

\* The summary is computed and both files are written
\* (aggregate-reports.ts:221-383)
AggWrite ==
    /\ aggPc = "parse"
    /\ markdownFiles = <<>>
    /\ Len(reports) # 0
    /\ LET sum == Aggregate(reports)
           text == generateSummaryReport(sum)
       IN /\ store' = WriteFile(WriteFile(store, SummaryMd, File(text)),
                                SummaryJson, JsonFile(sum))
          /\ runs' = Append(runs, RunRecord(TRUE, TRUE, sum, text))
    /\ aggPc' = "done"
    /\ UNCHANGED <<dirExists, written, markdownFiles, reports, skipped,
                   aggExit, runnerVars, reportVars,
                   toolVars>>

InitAgg ==
    /\ RunnerIdle
    /\ ReportIdle
    /\ AggIdle
    /\ ToolIdle

NextAgg ==
    \/ PersistReports
    \/ \E ts \in 1..MaxReports : TruncateReport(ReportName(ts))
    \/ \E ts \in 1..MaxReports : MakeUnreadable(ReportName(ts))
    \/ AggReaddirFails
    \/ AggStart
    \/ AggParse
    \/ AggNoReports
    \/ AggWrite

SpecAgg == InitAgg /\ [][NextAgg]_vars

\* The .md files of a directory, the per-trial reports among them, and the
\* files parseMarkdownReport gives a report for.
MdFiles(dir) == {n \in DOMAIN dir : n.ext = "md"}
TrialReports(dir) ==
    [n \in {m \in MdFiles(dir) : m.base = "benchmark"} |-> dir[n]]
ParsedFiles(dir) == {n \in MdFiles(dir) : IsReport(parseMarkdownReport(dir[n]))}

(* C3: when two successive aggregation runs both write a summary and the
   per-trial reports in the directory are the same at both runs, the second
   run writes the same OVERALL_COMPARISON_SUMMARY.md and .json as the
   first. *)
C3_AggregationIdempotent ==
    \A i \in 1..(Len(runs) - 1) :
        (/\ runs[i].wrote /\ runs[i + 1].wrote
         /\ TrialReports(runs[i].dir) = TrialReports(runs[i + 1].dir))
        => /\ runs[i + 1].markdown = runs[i].markdown
           /\ runs[i + 1].summary = runs[i].summary

\* The reports of the files of dir that parse, in the order of the listing.
ParsedReports(dir) ==
    LET md == SortNames(MdFiles(dir))
        all == [k \in 1..Len(md) |-> parseMarkdownReport(dir[md[k]])]
        reportOf(r) == r.report
    IN [k \in 1..Len(SelectSeq(all, IsReport)) |->
            reportOf(SelectSeq(all, IsReport)[k])]

\* The summary of a run is the mean over the files that parsed.  (The
\* quantifiers over one-element sets make TLC compute the parses once.)
AveragesOverParsed(run) ==
    \A ok \in {ParsedReports(run.dir)} :
    \A rows \in {[F \in FormatSet |->
                    [k \in 1..Len(ok) |-> FindFormat(ok[k].formats, F)]]} :
    LET sum == run.summary
    IN /\ sum.totalRuns = Len(ok)
       /\ run.parsedCount = Len(ok)
       /\ \A F \in FormatSet :
            LET avg == sum.averageMetrics[F]
                row == rows[F]
            IN /\ RatMulInt(avg.preflightTokenCount, sum.totalRuns) =
                    RatOfInt(SumInt([k \in 1..Len(ok) |->
                                        row[k].preflightTokenCount]))
               /\ RatMulInt(avg.responsePromptTokenCount, sum.totalRuns) =
                    RatOfInt(SumInt([k \in 1..Len(ok) |->
                                        row[k].responsePromptTokenCount]))
               /\ RatMulInt(avg.responseTotalTokenCount, sum.totalRuns) =
                    RatOfInt(SumInt([k \in 1..Len(ok) |->
                                        row[k].responseTotalTokenCount]))
               /\ RatMulInt(avg.conversionMs, sum.totalRuns) =
                    SumRat([k \in 1..Len(ok) |-> row[k].conversionMs])
               /\ RatMulInt(avg.apiLatencyMs, sum.totalRuns) =
                    SumRat([k \in 1..Len(ok) |-> row[k].apiLatencyMs])
       /\ (\A k \in 1..Len(ok) : rows["JSON"][k].preflightTokenCount = 1404)
            => sum.averageMetrics.JSON.preflightTokenCount = RatOfInt(1404)

(* C8: whenever a run writes a summary, totalRuns is the number of .md
   files that parsed, and each per-format average times totalRuns is the sum
   of the field over the reports of exactly those files; when all of them
   have a JSON preflight count of 1404 the average is 1404. *)
C8_AveragesOverParsed ==
    [][(aggPc = "parse" /\ aggPc' = "done" /\ runs'[Len(runs')].wrote)
        => AveragesOverParsed(runs'[Len(runs')])]_vars

\* A first run over three trial reports: two parse, both with a JSON
\* preflight count of 1404, one is skipped, and the average is 1404.
C8_Witness ==
    /\ Len(runs) = 1
    /\ runs[1].wrote
    /\ Len(runs[1].skipped) = 1
    /\ runs[1].summary.totalRuns = 2
    /\ Cardinality(MdFiles(runs[1].dir)) = 3
    /\ runs[1].summary.averageMetrics.JSON.preflightTokenCount = RatOfInt(1404)
    /\ \A k \in {1, 2} :
          FindFormat(ParsedReports(runs[1].dir)[k].formats,
                     "JSON").preflightTokenCount = 1404

\* The run gave no report for the files it had to skip, and handled all
\* the others.
BadFilesSkipped(run) ==
    \A result \in {[n \in MdFiles(run.dir) |-> parseMarkdownReport(run.dir[n])]} :
    LET dir == run.dir
        bad == {n \in MdFiles(dir) :
                   ~dir[n].readable \/ RowCount(dir[n].lines) # 3}
        good == {n \in MdFiles(dir) : IsReport(result[n])}
        skippedFiles == {run.skipped[k].file : k \in 1..Len(run.skipped)}
    IN /\ \A n \in bad :
            /\ ~IsReport(result[n])
            /\ dir[n].readable => result[n].why = "rows"
            /\ \E k \in 1..Len(run.skipped) :
                  /\ run.skipped[k].file = n
                  /\ run.skipped[k].why =
                        IF dir[n].readable THEN "rows" ELSE "exception"
       /\ skippedFiles \cap good = {}
       /\ run.parsedCount = Cardinality(good)
       /\ run.parsedCount + Len(run.skipped) = Cardinality(MdFiles(dir))
       /\ run.wrote = (good # {})

(* C9: a readable .md file whose table does not have exactly 3 rows gives
   no report and the row-count warning, an unreadable one gives no report;
   a run that listed the directory reaches its end having handled every .md
   file: the files without a report are skipped, all the others are
   aggregated. *)
C9_BadFilesSkipped ==
    [][(aggPc = "parse" /\ aggPc' = "done")
        => BadFilesSkipped(runs'[Len(runs')])]_vars

\* A run over a report with 2 table rows, an unreadable report and, after
\* both in the listing, a complete report: the summary is written from the
\* complete one.
C9_Witness ==
    /\ Len(runs) = 1
    /\ runs[1].wrote
    /\ runs[1].summary.totalRuns = 1
    /\ Len(runs[1].skipped) = 2
    /\ runs[1].skipped[1].why = "rows"
    /\ RowCount(runs[1].dir[runs[1].skipped[1].file].lines) = 2
    /\ runs[1].skipped[2].why = "exception"
    /\ ParsedFiles(runs[1].dir) = {ReportName(3)}

(* C10: a run that lists the directory and parses zero reports writes no
   summary file and ends with a non-zero exit status. *)
C10_ZeroReportsAbort ==
    \A i \in 1..Len(runs) :
        (runs[i].listed /\ runs[i].parsedCount = 0)
        => /\ ~runs[i].wrote
           /\ runs[i].exit # 0

(***************************************************************************)
(*                 CLAIMS ABOUT THE FASTEST FORMAT                         *)
(***************************************************************************)
\* The position of a format in the fixed order JSON, TOON, MARKDOWN.
OrderOf(format) == CHOOSE i \in 1..3 : Formats[i] = format

\* format has the least of the three latencies (a function from format
\* names to durations), and every format before it in the fixed order has a
\* strictly greater one.
IsFirstArgMin(format, latency) ==
    /\ format \in FormatSet
    /\ \A g \in FormatSet : ~RatLess(latency[g], latency[format])
    /\ \A g \in FormatSet :
          OrderOf(g) < OrderOf(format) => RatLess(latency[format], latency[g])

\* The format named on the "Fastest format" line of a trial report.
FastestLine(lines) ==
    LET IsFastest(l) == l.k = "fastest"
    IN lines[FirstIndex(lines, IsFastest)].a[1]

(* C11: the fastest format the aggregator reports has the least average
   apiLatencyMs of JSON, TOON and MARKDOWN, the fastest format
   getFastestFormat writes into a trial report has the least apiLatencyMs of
   the trial, and among formats that tie for the least the first in the
   order JSON, TOON, MARKDOWN is reported. *)
C11_FastestIsFirstArgMin ==
    [][/\ (aggPc = "parse" /\ aggPc' = "done" /\ runs'[Len(runs')].wrote)
          => LET sum == runs'[Len(runs')].summary
             IN IsFirstArgMin(sum.fastestFormat,
                   [g \in FormatSet |-> sum.averageMetrics[g].apiLatencyMs])
       /\ Len(written') > Len(written)
          => LET trial == written'[Len(written')]
             IN IsFirstArgMin(
                   FastestLine(store'[ReportName(trial.timestamp)].lines),
                   [g \in FormatSet |->
                       FindFormat(trial.formats, g).apiLatencyMs])]_vars

\* A summary whose TOON and MARKDOWN averages tie below the JSON average and
\* that reports TOON, over trial reports that say the same of their trial.
C11_Witness ==
    /\ Len(runs) = 1
    /\ runs[1].wrote
    /\ runs[1].summary.totalRuns = 2
    /\ runs[1].summary.averageMetrics.TOON.apiLatencyMs =
          runs[1].summary.averageMetrics.MARKDOWN.apiLatencyMs
    /\ RatLess(runs[1].summary.averageMetrics.TOON.apiLatencyMs,
               runs[1].summary.averageMetrics.JSON.apiLatencyMs)
    /\ runs[1].summary.fastestFormat = "TOON"
    /\ FastestLine(store[ReportName(1)].lines) = "TOON"

(***************************************************************************)
(*                 CLAIMS ABOUT A FAILING OUTBOUND CALL                    *)
(***************************************************************************)
\* The sub-tasks whose outbound call threw.
Failed == {f \in FormatSet : task[f].pc = "failed"}

(* C12: once an outbound call of a trial has thrown, main has rejected and
   the exit code is non-zero; the reports written are those of the earlier
   trials only; from then on the failed call is not started again, no
   report is written, no further trial starts and the exit code stays
   non-zero. *)
C12_FailureAbortsSeries ==
    /\ [](Failed # {} =>
            /\ mainPc = "failed"
            /\ exitCode # 0
            /\ reportsWritten = index)
    /\ [][Failed # {} =>
            /\ \A f \in Failed : task'[f].pc = "failed"
            /\ mainPc' = "failed"
            /\ index' = index
            /\ reportsWritten' = reportsWritten
            /\ exitCode' = exitCode]_vars

\* The second trial of a series fails in generateContent of one format
\* after the first trial was persisted.
C12_Witness ==
    /\ mainPc = "failed"
    /\ index = 1
    /\ reportsWritten = 1
    /\ exitCode = 1
    /\ task["TOON"].pc = "failed"
    /\ task["TOON"].measureStart > 0
    /\ task["JSON"].pc = "done"

\* Sub-task g starts an outbound call in this step.
StartsCall(g) ==
    /\ task'[g].pc \in {"count", "gen"}
    /\ task'[g].pc # task[g].pc

(* C13: after an outbound call of one format has failed within a trial, no
   countTokens or generateContent call of the other format sub-tasks of the
   trial is started. *)
C13_NoCallAfterFailure ==
    [][Failed # {} => \A g \in FormatSet : ~StartsCall(g)]_vars

(***************************************************************************)
(*                     CLAIMS ABOUT THE SERIES                             *)
(***************************************************************************)
(* C14: trials run one after another.  While main persists a trial, waits
   between trials or is about to start a later trial, every outbound call of
   the trial before has returned; the wait lasts delayMs from the moment the
   files are written; and a later trial starts (and with it its first
   outbound call) only when all calls of the trial before have returned, its
   files are written and the wait is over. *)
C14_TrialsSequential ==
    /\ []((mainPc \in {"persist", "delay", "done"} \/ (mainPc = "ready" /\ index > 0))
            => \A f \in FormatSet : task[f].pc = "done")
    /\ [][/\ (mainPc = "persist" /\ mainPc' = "delay")
              => delayUntil' = now + options.delayMs
          /\ (mainPc = "ready" /\ mainPc' = "awaitAll" /\ index > 0)
              => /\ \A f \in FormatSet : task[f].pc = "done"
                 /\ reportsWritten = index
                 /\ now >= delayUntil]_vars

\* The second trial of a series with a delay of 4500 ms has started its
\* calls, 4500 ms or more after the first trial was persisted.
C14_Witness ==
    /\ mainPc = "awaitAll"
    /\ index = 1
    /\ options.delayMs = REQUEST_COOLDOWN_MS
    /\ reportsWritten = 1
    /\ delayUntil >= 2 * REQUEST_COOLDOWN_MS
    /\ now >= delayUntil
    /\ \E f \in FormatSet : task[f].pc = "count"

(***************************************************************************)
(*                    THE COMMAND LINE  (SpecCli)                          *)
(*                                                                         *)
(* main() reads the options of the series from the argument list and runs  *)
(* the loop `for (index = 0; index < repeat; index++)`.  An argument is a  *)
(* sequence of characters; a number is a rational or NaN.  The trial that  *)
(* one iteration of the loop runs is the subject of Spec; here an          *)
(* iteration only counts.                                                  *)
(***************************************************************************)
MaxArgs == 2
MaxValueLen == 3

\* NaN among the rationals: the denominator 0 marks it.
NotANumber == [n |-> 0, d |-> 0]
IsNaN(x) == x.d = 0

\* Number(text) for a text of digits, '-', '+', '.' and letters: the empty
\* text is 0; a decimal literal with an optional sign is its value; every
\* other text is NaN.
Number(cs) ==
    IF cs = <<>> THEN Zero
    ELSE LET neg == Head(cs) = "-"
             body == IF Head(cs) \in {"-", "+"} THEN Tail(cs) ELSE cs
             ip == TakeWhile(body, DigitSet)
             rest == SubSeq(body, Len(ip) + 1, Len(body))
             hasDot == rest # <<>> /\ Head(rest) = "."
             fp == IF hasDot THEN TakeWhile(Tail(rest), DigitSet) ELSE <<>>
             used == Len(ip) + (IF hasDot THEN 1 + Len(fp) ELSE 0)
             mag == DigitsToNat(ip \o fp)
         IN IF used # Len(body) \/ (ip = <<>> /\ fp = <<>>) THEN NotANumber
            ELSE Rat(IF neg THEN -mag ELSE mag, Pow10(Len(fp)))

\* Math.max(x, y): NaN when one of the two is NaN.
MathMax(x, y) ==
    IF IsNaN(x) \/ IsNaN(y) THEN NotANumber
    ELSE IF RatLess(x, y) THEN y ELSE x

\* x < y on numbers: false when one of the two is NaN.
LessThan(x, y) == ~IsNaN(x) /\ ~IsNaN(y) /\ RatLess(x, y)

\* arg.startsWith(prefix)
StartsWith(cs, prefix) ==
    Len(cs) >= Len(prefix) /\ SubSeq(cs, 1, Len(prefix)) = prefix

\* argv.find(test): the index of the first argument that starts with the
\* prefix, 0 for undefined.
FindArg(argv, prefix) ==
    LET hits == {i \in 1..Len(argv) : StartsWith(argv[i], prefix)}
    IN IF hits = {} THEN 0 ELSE CHOOSE i \in hits : \A j \in hits : i <= j

\* arg.split('=')[1] for an argument that holds '=': the text between the
\* first '=' and the next one.
SplitSecond(cs) ==
    LET NotEq == {cs[i] : i \in 1..Len(cs)} \ {"="}
        first == TakeWhile(cs, NotEq)
    IN TakeWhile(SubSeq(cs, Len(first) + 2, Len(cs)), NotEq)

RepeatSwitch == <<"-", "-", "r", "e", "p", "e", "a", "t", "=">>
DelaySwitch == <<"-", "-", "d", "e", "l", "a", "y", "M", "s", "=">>

\* parseCliArgs (toon-vs-json.ts:240-248)
parseCliArgs(argv) ==
    LET repeatArg == FindArg(argv, RepeatSwitch)
        delayArg == FindArg(argv, DelaySwitch)
    IN [repeat |-> IF repeatArg # 0
                   THEN MathMax(RatOfInt(1), Number(SplitSecond(argv[repeatArg])))
                   ELSE RatOfInt(1),
        delayMs |-> IF delayArg # 0
                    THEN MathMax(Zero, Number(SplitSecond(argv[delayArg])))
                    ELSE RatOfInt(20000)]

\* const options = parseCliArgs(process.argv.slice(2)) (toon-vs-json.ts:452)
CliParse ==
    /\ cliPc = "start"
    /\ cliOptions' = parseCliArgs(processArgv)
    /\ cliIndex' = 0
    /\ cliPc' = "loop"
    /\ UNCHANGED <<processArgv, procEnv, nameVars, mdVars, excerptVars,
                   runnerVars, reportVars, aggVars>>

\* One iteration of the loop of main (toon-vs-json.ts:457-466).
CliTrial ==
    /\ cliPc = "loop"
    /\ LessThan(RatOfInt(cliIndex), cliOptions.repeat)
    /\ cliIndex' = cliIndex + 1
    /\ UNCHANGED <<processArgv, cliPc, cliOptions, procEnv, nameVars, mdVars,
                   excerptVars, runnerVars, reportVars, aggVars>>

\* The loop condition is false: main goes on to the closing message
\* (toon-vs-json.ts:457, 468-470).
CliLoopEnd ==
    /\ cliPc = "loop"
    /\ ~LessThan(RatOfInt(cliIndex), cliOptions.repeat)
    /\ cliPc' = "done"
    /\ UNCHANGED <<processArgv, cliOptions, cliIndex, procEnv, nameVars,
                   mdVars, excerptVars, runnerVars, reportVars, aggVars>>

\* The texts after the '=' of a switch, and the arguments made of them.
ValueChars == {"2", "-", ".", "a"}
Values == UNION {[1..k -> ValueChars] : k \in 0..MaxValueLen}
Arguments ==
    {RepeatSwitch \o v : v \in Values} \cup {DelaySwitch \o v : v \in Values}
        \cup {<<"-", "-", "v">>}

InitCli ==
    /\ processArgv \in UNION {[1..k -> Arguments] : k \in 0..MaxArgs}
    /\ cliPc = "start"
    /\ cliOptions = <<>>
    /\ cliIndex = 0
    /\ EnvIdle /\ NameIdle /\ MdIdle /\ ExcerptIdle
    /\ RunnerIdle /\ ReportIdle /\ AggIdle

NextCli == CliParse \/ CliTrial \/ CliLoopEnd

SpecCli == InitCli /\ [][NextCli]_vars

IsInteger(x) == ~IsNaN(x) /\ x.d = 1

(* C15: for every argument list parseCliArgs returns a repeat that is an
   integer of at least 1 and a delayMs that is a number of at least 0, the
   defaults 1 and 20000 when the switch is missing, and the loop of main
   has run at least one trial when it ends. *)
C15_CliOptionsInRange ==
    /\ cliPc \in {"loop", "done"}
       => /\ IsInteger(cliOptions.repeat)
          /\ ~RatLess(cliOptions.repeat, RatOfInt(1))
          /\ ~IsNaN(cliOptions.delayMs)
          /\ ~RatLess(cliOptions.delayMs, Zero)
          /\ FindArg(processArgv, RepeatSwitch) = 0
             => cliOptions.repeat = RatOfInt(1)
          /\ FindArg(processArgv, DelaySwitch) = 0
             => cliOptions.delayMs = RatOfInt(20000)
    /\ cliPc = "done" => cliIndex >= 1

(***************************************************************************)
(*                THE FILE NAMES OF A TRIAL  (SpecNames)                   *)
(*                                                                         *)
(* runOnce stamps a trial with new Date().toISOString() and the two        *)
(* persist functions derive the file names from the stamp.  Here the       *)
(* stamps and the names are texts, character by character, and two trials  *)
(* are named side by side.                                                 *)
(***************************************************************************)
\* Date.prototype.toISOString: "YYYY-MM-DDTHH:mm:ss.sssZ", every field
\* padded to its width (toon-vs-json.ts:291).
toISOString(date) ==
    <<"2", "0", "2", "5", "-", "1", "1", "-">> \o PadDigits(date.day, 2)
        \o <<"T">> \o PadDigits(date.hour, 2) \o <<":">>
        \o PadDigits(date.minute, 2) \o <<":">> \o PadDigits(date.second, 2)
        \o <<".">> \o PadDigits(date.ms, 3) \o <<"Z">>

\* Mutant of filenameSafeTimestamp: replace without the g flag, which
\* replaces the first match only.
filenameSafeTimestamp_firstOnly(timestamp) ==
    LET hits == {i \in 1..Len(timestamp) : timestamp[i] \in {":", "."}}
        first == IF hits = {} THEN 0
                 ELSE CHOOSE i \in hits : \A j \in hits : i <= j
    IN [i \in 1..Len(timestamp) |-> IF i = first THEN "-" ELSE timestamp[i]]

\* filenameSafeTimestamp (toon-vs-json.ts:710-712)
filenameSafeTimestamp(timestamp) ==
    [i \in 1..Len(timestamp) |->
        IF timestamp[i] \in {":", "."} THEN "-" ELSE timestamp[i]]

\* baseFilename (toon-vs-json.ts:706-708)
baseFilename(timestamp) ==
    <<"b", "e", "n", "c", "h", "m", "a", "r", "k", "-">>
        \o filenameSafeTimestamp(timestamp)

\* format.toLowerCase() on the three format names
toLowerCase(format) ==
    CASE format = "JSON" -> <<"j", "s", "o", "n">>
      [] format = "TOON" -> <<"t", "o", "o", "n">>
      [] format = "MARKDOWN" -> <<"m", "a", "r", "k", "d", "o", "w", "n">>

\* The file name of persistMarkdownReport (toon-vs-json.ts:480-481)
ReportFileName(timestamp) == baseFilename(timestamp) \o <<".", "m", "d">>

\* The file name of persistRawResponses for one format
\* (toon-vs-json.ts:694, 698)
ResponseFileName(timestamp, format) ==
    baseFilename(timestamp) \o <<"-">> \o toLowerCase(format)
        \o <<"-", "r", "e", "s", "p", "o", "n", "s", "e", ".", "j", "s", "o", "n">>

\* runOnce persists the trial of each stamp (toon-vs-json.ts:304-305)
NameTrials ==
    /\ namePc = "start"
    /\ nameFiles' = [i \in 1..2 |->
          [report |-> ReportFileName(nameStamps[i]),
           responses |-> [f \in FormatSet |-> ResponseFileName(nameStamps[i], f)]]]
    /\ namePc' = "named"
    /\ UNCHANGED <<nameStamps, procEnv, cliVars, mdVars, excerptVars,
                   runnerVars, reportVars, aggVars>>

\* The moments of the two trials.
Dates == [day : {1, 12}, hour : {1, 12}, minute : {1, 12}, second : {1, 12},
          ms : {1, 12, 120}]

InitNames ==
    /\ nameStamps \in [1..2 -> {toISOString(date) : date \in Dates}]
    /\ namePc = "start"
    /\ nameFiles = <<>>
    /\ EnvIdle /\ CliIdle /\ MdIdle /\ ExcerptIdle
    /\ RunnerIdle /\ ReportIdle /\ AggIdle

NextNames == NameTrials

SpecNames == InitNames /\ [][NextNames]_vars

\* The file names of trial i, as a set.
FilesOf(i) ==
    {nameFiles[i].report} \cup {nameFiles[i].responses[f] : f \in FormatSet}

(* C17: the base file name of a trial is a function of its timestamp and
   holds no colon and no period; two different timestamps give different
   base names (and no file name in common), equal timestamps give the same
   names; and the Markdown report and the three raw-response files of a
   trial all begin with the base name of the trial. *)
C17_BaseNamesDistinct ==
    namePc = "named"
    => /\ \A i \in 1..2 :
            /\ \A k \in 1..Len(baseFilename(nameStamps[i])) :
                  baseFilename(nameStamps[i])[k] \notin {":", "."}
            /\ \A name \in FilesOf(i) :
                  StartsWith(name, baseFilename(nameStamps[i]))
            /\ Cardinality(FilesOf(i)) = 4
       /\ nameStamps[1] # nameStamps[2]
          => /\ baseFilename(nameStamps[1]) # baseFilename(nameStamps[2])
             /\ FilesOf(1) \cap FilesOf(2) = {}
       /\ nameStamps[1] = nameStamps[2] => nameFiles[1] = nameFiles[2]

\* Two trials one millisecond-field apart have been named, and their
\* reports differ.
C17_Witness ==
    /\ namePc = "named"
    /\ nameStamps[1] = toISOString([day |-> 1, hour |-> 12, minute |-> 1,
                                    second |-> 12, ms |-> 12])
    /\ nameStamps[2] = toISOString([day |-> 1, hour |-> 12, minute |-> 1,
                                    second |-> 12, ms |-> 120])
    /\ nameFiles[1].report # nameFiles[2].report
    /\ Len(nameFiles[1].report) = 37

(***************************************************************************)
(*                   jsonToMarkdown  (SpecMarkdown)                        *)
(*                                                                         *)
(* A JSON value is a record: kind ("null", "boolean", "number", "string",  *)
(* "array", "object"; "undefined" for a property that is missing), text    *)
(* (String(value) of a primitive), keys (the own keys of an object, each   *)
(* a sequence of characters, in insertion order) and items (the elements   *)
(* of an array, the property values of an object).  A text is a sequence   *)
(* of pieces whose concatenation it is.  A call gives [ok, out]: out is    *)
(* the returned text, and ok is FALSE when the call threw.                 *)
(***************************************************************************)
MaxItems == 2

JPrim(kind, text) == [kind |-> kind, text |-> text, keys |-> <<>>, items |-> <<>>]
JNull == JPrim("null", "null")
JUndefined == JPrim("undefined", "undefined")
JArray(items) == [kind |-> "array", text |-> "", keys |-> <<>>, items |-> items]
JObject(keys, items) == [kind |-> "object", text |-> "", keys |-> keys, items |-> items]

Ok(out) == [ok |-> TRUE, out |-> out]
\* The call ended with a TypeError.
Thrown == [ok |-> FALSE, out |-> <<>>]

\* texts.join(sep)
RECURSIVE Join(_, _)
Join(texts, sep) ==
    IF texts = <<>> THEN <<>>
    ELSE IF Len(texts) = 1 THEN texts[1]
    ELSE texts[1] \o sep \o Join(Tail(texts), sep)

\* list.map(f).join(sep), where a call of f may throw
JoinOk(results, sep) ==
    IF \A i \in 1..Len(results) : results[i].ok
    THEN Ok(Join([i \in 1..Len(results) |-> results[i].out], sep))
    ELSE Thrown

\* `${before}${call}${after}`
Wrap(before, result, after) ==
    IF result.ok THEN Ok(before \o result.out \o after) ELSE Thrown

\* String(value) of a primitive
String(value) == <<value.text>>

\* typeof value === 'object' && value !== null && !Array.isArray(value)
IsPlainObject(value) == value.kind = "object"

\* The property name of the place i of an array or a string.
IndexKey(i) == NatToChars(i - 1)

\* Object.keys(item): the own enumerable keys; a TypeError for null and
\* undefined.
ObjectKeys(item) ==
    CASE item.kind \in {"null", "undefined"} -> [ok |-> FALSE, keys |-> <<>>]
      [] item.kind = "object" -> [ok |-> TRUE, keys |-> item.keys]
      [] item.kind = "array" ->
            [ok |-> TRUE, keys |-> [i \in 1..Len(item.items) |-> IndexKey(i)]]
      [] item.kind = "string" ->
            [ok |-> TRUE, keys |-> IF item.text = "" THEN <<>> ELSE <<IndexKey(1)>>]
      [] OTHER -> [ok |-> TRUE, keys |-> <<>>]

\* item[key] of a value that is not null: an own property, or undefined.
\* (The strings of the model have at most one character.)
Get(item, key) ==
    CASE item.kind = "object" ->
            IF \E i \in 1..Len(item.keys) : item.keys[i] = key
            THEN item.items[CHOOSE i \in 1..Len(item.keys) : item.keys[i] = key]
            ELSE JUndefined
      [] item.kind = "array" ->
            IF \E i \in 1..Len(item.items) : IndexKey(i) = key
            THEN item.items[CHOOSE i \in 1..Len(item.items) : IndexKey(i) = key]
            ELSE JUndefined
      [] item.kind = "string" ->
            IF item.text # "" /\ key = IndexKey(1) THEN item ELSE JUndefined
      [] OTHER -> JUndefined

Capitals == {"A", "B", "K"}
toUpperCase(c) == CASE c = "a" -> "A" [] c = "b" -> "B" [] c = "k" -> "K" [] OTHER -> c

\* text.trim()
RECURSIVE Trim(_)
Trim(cs) ==
    IF cs = <<>> THEN <<>>
    ELSE IF Head(cs) = " " THEN Trim(Tail(cs))
    ELSE IF cs[Len(cs)] = " " THEN Trim(SubSeq(cs, 1, Len(cs) - 1))
    ELSE cs

\* key.replace(/([A-Z])/g, ' $1')
RECURSIVE SpaceCapitals(_)
SpaceCapitals(cs) ==
    IF cs = <<>> THEN <<>>
    ELSE (IF Head(cs) \in Capitals THEN <<" ", Head(cs)>> ELSE <<Head(cs)>>)
            \o SpaceCapitals(Tail(cs))

\* formatKey (toon-vs-json.ts:146-152)
formatKey(key) ==
    LET spaced == SpaceCapitals(key)
    IN Trim(IF spaced = <<>> THEN <<>>
            ELSE <<toUpperCase(Head(spaced))>> \o Tail(spaced))

\* The keys of the Set allKeys in insertion order: keys appended to seen,
\* each once.
RECURSIVE AddKeys(_, _)
AddKeys(seen, keys) ==
    IF keys = <<>> THEN seen
    ELSE AddKeys(IF \E i \in 1..Len(seen) : seen[i] = Head(keys) THEN seen
                 ELSE Append(seen, Head(keys)),
                 Tail(keys))

RECURSIVE AllKeys(_, _)
AllKeys(seen, keyLists) ==
    IF keyLists = <<>> THEN seen
    ELSE AllKeys(AddKeys(seen, Head(keyLists)), Tail(keyLists))

RECURSIVE jsonToMarkdown(_)
RECURSIVE arrayOfObjectsToTable(_)

\* arrayOfObjectsToTable (toon-vs-json.ts:154-199)
arrayOfObjectsToTable(items) ==
    LET own == [i \in 1..Len(items) |-> ObjectKeys(items[i])]
        headers == AllKeys(<<>>, [i \in 1..Len(items) |-> own[i].keys])
        headerRow == Join([h \in 1..Len(headers) |-> formatKey(headers[h])],
                          <<" | ">>)
        separatorRow == Join([h \in 1..Len(headers) |-> <<"---">>], <<" | ">>)
        Cell(item, key) ==
            LET value == Get(item, key)
            IN IF value.kind \in {"null", "undefined"} THEN Ok(<<>>)
               ELSE IF value.kind = "object"
               THEN JoinOk([e \in 1..Len(value.keys) |->
                              Wrap(formatKey(value.keys[e]) \o <<": ">>,
                                   jsonToMarkdown(value.items[e]), <<>>)],
                           <<", ">>)
               ELSE IF value.kind = "array"
               THEN JoinOk([e \in 1..Len(value.items) |->
                              jsonToMarkdown(value.items[e])], <<", ">>)
               ELSE Ok(String(value))
        dataRows == [i \in 1..Len(items) |->
                       Wrap(<<"| ">>,
                            JoinOk([h \in 1..Len(headers) |-> Cell(items[i], headers[h])],
                                   <<" | ">>),
                            <<" |">>)]
    IN IF items = <<>> THEN Ok(<<>>)
       ELSE IF \E i \in 1..Len(items) : ~own[i].ok THEN Thrown
       ELSE IF headers = <<>> THEN Ok(<<>>)
       ELSE Wrap(<<"| ">> \o headerRow \o <<" |\n| ">> \o separatorRow \o <<" |\n">>,
                 JoinOk(dataRows, <<"\n">>), <<>>)

\* jsonToMarkdown (toon-vs-json.ts:80-144)
jsonToMarkdown(data) ==
    LET Bullets(list) ==
            JoinOk([i \in 1..Len(list) |->
                      Wrap(<<"- ">>, jsonToMarkdown(list[i]), <<>>)], <<"\n">>)
        Part(key, value) ==
            LET formattedKey == formatKey(key)
            IN IF value.kind \in {"null", "undefined"}
               THEN Ok(<<"**">> \o formattedKey \o <<":** ">> \o String(value))
               ELSE IF value.kind = "array"
               THEN IF value.items = <<>>
                    THEN Ok(<<"**">> \o formattedKey \o <<":** (empty)">>)
                    ELSE IF IsPlainObject(value.items[1])
                    THEN Wrap(<<"\n### ">> \o formattedKey \o <<"\n\n">>,
                              arrayOfObjectsToTable(value.items), <<>>)
                    ELSE Wrap(<<"\n**">> \o formattedKey \o <<":**\n\n">>,
                              Bullets(value.items), <<>>)
               ELSE IF value.kind = "object"
               THEN Wrap(<<"\n### ">> \o formattedKey \o <<"\n\n">>,
                         jsonToMarkdown(value), <<>>)
               ELSE Wrap(<<"**">> \o formattedKey \o <<":** ">>,
                         jsonToMarkdown(value), <<>>)
    IN IF data.kind \in {"null", "undefined"} THEN Ok(String(data))
       ELSE IF data.kind \in {"string", "number", "boolean"} THEN Ok(String(data))
       ELSE IF data.kind = "array"
       THEN IF data.items = <<>> THEN Ok(<<>>)
            ELSE IF IsPlainObject(data.items[1])
            THEN arrayOfObjectsToTable(data.items)
            ELSE Bullets(data.items)
       ELSE IF data.keys = <<>> THEN Ok(<<>>)
       ELSE JoinOk([k \in 1..Len(data.keys) |-> Part(data.keys[k], data.items[k])],
                   <<"\n\n">>)

\* One call of jsonToMarkdown, as measureConversion makes it on the
\* dataset (toon-vs-json.ts:273).
RenderMarkdown ==
    /\ mdPc = "start"
    /\ mdResult' = jsonToMarkdown(mdData)
    /\ mdPc' = "done"
    /\ UNCHANGED <<mdData, procEnv, cliVars, nameVars, excerptVars,
                   runnerVars, reportVars, aggVars>>

\* JSON-compatible values: primitives; arrays and objects of them; arrays
\* and objects of those; and objects with one array of those.
Prims == {JNull, JPrim("boolean", "true"), JPrim("number", "1"), JPrim("string", "x")}
KeyLists == {<<>>, <<<<"a">>>>, <<<<"b", "K">>>>, <<<<"a">>, <<"b", "K">>>>}
Arrays(S) == {JArray(items) : items \in UNION {[1..k -> S] : k \in 0..MaxItems}}
Objects(S) ==
    UNION {{JObject(keys, items) : items \in [1..Len(keys) -> S]} : keys \in KeyLists}
Level1 == Prims \cup Arrays(Prims) \cup Objects(Prims)
Level2 == Level1 \cup Arrays(Level1) \cup Objects(Level1)
JsonValues == Level2 \cup {JObject(<<<<"a">>>>, <<v>>) : v \in Arrays(Level1)}

InitMarkdown ==
    /\ mdData \in JsonValues
    /\ mdPc = "start"
    /\ mdResult = <<>>
    /\ EnvIdle /\ CliIdle /\ NameIdle /\ ExcerptIdle
    /\ RunnerIdle /\ ReportIdle /\ AggIdle

NextMarkdown == RenderMarkdown

SpecMarkdown == InitMarkdown /\ [][NextMarkdown]_vars

(* C18: for every JSON-compatible value, arrays of elements of mixed kinds
   included, jsonToMarkdown returns a text and does not throw. *)
C18_NeverThrows == mdPc = "done" => mdResult.ok

(***************************************************************************)
(*                      getExcerpt  (SpecExcerpt)                          *)
(*                                                                         *)
(* The text of a response is [defined, chars]: response.text is undefined  *)
(* when the response holds no text.  The character at place i of a text    *)
(* of the model is a digit that depends on i, so that a slice is told      *)
(* from the whole and from other slices.                                   *)
(***************************************************************************)
MaxTextLen == 245
ExcerptMaxLength == 240

\* The three characters that follow the slice in the template literal of
\* the source file, each named by its code point.
EllipsisMarker == <<"U+00E2", "U+20AC", "U+00A6">>

\* Mutant of getExcerpt: the comparison is strict.
getExcerpt_strict(text, maxLength) ==
    IF ~text.defined \/ text.chars = <<>> THEN <<>>
    ELSE IF Len(text.chars) < maxLength THEN text.chars
    ELSE SubSeq(text.chars, 1, maxLength) \o EllipsisMarker

\* getExcerpt (toon-vs-json.ts:235-238)
getExcerpt(text, maxLength) ==
    IF ~text.defined \/ text.chars = <<>> THEN <<>>
    ELSE IF Len(text.chars) <= maxLength THEN text.chars
    ELSE SubSeq(text.chars, 1, maxLength) \o EllipsisMarker

\* responseTextExcerpt: getExcerpt(responseText), with the default
\* maxLength (toon-vs-json.ts:337, 346)
TakeExcerpt ==
    /\ excerptPc = "start"
    /\ excerptResult' = getExcerpt(excerptText, ExcerptMaxLength)
    /\ excerptPc' = "done"
    /\ UNCHANGED <<excerptText, procEnv, cliVars, nameVars, mdVars,
                   runnerVars, reportVars, aggVars>>

\* The texts a response can hold: none, and texts of every length up to
\* MaxTextLen, in two fillings.
TextOf(n, shift) == [i \in 1..n |-> Digits[((i + shift) % 10) + 1]]
ResponseTexts ==
    {[defined |-> FALSE, chars |-> <<>>]}
        \cup {[defined |-> TRUE, chars |-> TextOf(n, shift)] :
                 n \in 0..MaxTextLen, shift \in {0, 3}}

InitExcerpt ==
    /\ excerptText \in ResponseTexts
    /\ excerptPc = "start"
    /\ excerptResult = <<>>
    /\ EnvIdle /\ CliIdle /\ NameIdle /\ MdIdle
    /\ RunnerIdle /\ ReportIdle /\ AggIdle

NextExcerpt == TakeExcerpt

SpecExcerpt == InitExcerpt /\ [][NextExcerpt]_vars

(* C19: the excerpt of a text of at most 240 characters is the text itself,
   the excerpt of a longer text is its first 240 characters followed by the
   ellipsis marker, the excerpt of an absent or empty text is empty, and no
   excerpt is longer than 240 characters plus the marker. *)
C19_ExcerptBounded ==
    excerptPc = "done"
    => /\ (~excerptText.defined \/ excerptText.chars = <<>>) => excerptResult = <<>>
       /\ (excerptText.defined /\ Len(excerptText.chars) <= 240)
          => excerptResult = excerptText.chars
       /\ Len(excerptText.chars) > 240
          => excerptResult = SubSeq(excerptText.chars, 1, 240) \o EllipsisMarker
       /\ Len(excerptResult) <= 240 + Len(EllipsisMarker)

\* A text of exactly 240 characters has been returned whole.
C19_Witness ==
    /\ excerptPc = "done"
    /\ excerptText.defined
    /\ Len(excerptText.chars) = 240
    /\ excerptResult = excerptText.chars

(***************************************************************************)
(*                  THE START OF THE PROCESS  (SpecStartup)                *)
(*                                                                         *)
(* The statements at the top of the module run before main() is called:    *)
(* they read the API key from the environment and end the process when     *)
(* there is none.  SpecStartup is Spec with this step in front of it, for  *)
(* every setting of the two variables.                                     *)
(***************************************************************************)
\* process.env.GEMINI_API_KEY ?? process.env.GOOGLE_API_KEY
\* (toon-vs-json.ts:63): the right side only for null and undefined.
API_KEY ==
    IF procEnv.GEMINI_API_KEY # Unset THEN procEnv.GEMINI_API_KEY
    ELSE procEnv.GOOGLE_API_KEY

\* !value on a string or undefined
Not(value) == value \in {Unset, ""}

\* Mutant of LoadModule: the missing key is reported but the process goes on.
LoadModule_noExit ==
    /\ mainPc = "load"
    /\ mainPc' = "ready"
    /\ exitCode' = IF Not(API_KEY) THEN 1 ELSE exitCode
    /\ UNCHANGED <<now, nextAvailableRequestTime, index, options, delayUntil,
                   task, reportsWritten, averagesPrinted, lastStart, minStartGap, reportVars,
                   aggVars, toolVars>>

\* The module is evaluated (toon-vs-json.ts:62-70) and main() is called
\* (toon-vs-json.ts:473); process.exit(1) ends the process at once.
LoadModule ==
    /\ mainPc = "load"
    /\ IF Not(API_KEY)
       THEN mainPc' = "exited" /\ exitCode' = 1
       ELSE mainPc' = "ready" /\ exitCode' = exitCode
    /\ UNCHANGED <<now, nextAvailableRequestTime, index, options, delayUntil,
                   task, reportsWritten, averagesPrinted, lastStart, minStartGap, reportVars,
                   aggVars, toolVars>>

EnvValues == {Unset, "", "key"}

InitStartup ==
    /\ procEnv \in [GEMINI_API_KEY : EnvValues, GOOGLE_API_KEY : EnvValues]
    /\ now = 0
    /\ nextAvailableRequestTime = 0
    /\ mainPc = "load"
    /\ index = 0
    /\ options = [repeat |-> MaxRepeat, delayMs |-> 0]
    /\ delayUntil = 0
    /\ task = [f \in FormatSet |-> NoTask]
    /\ exitCode = 0
    /\ reportsWritten = 0
    /\ averagesPrinted = 0
    /\ lastStart = -1
    /\ minStartGap = -1
    /\ CliIdle /\ NameIdle /\ MdIdle /\ ExcerptIdle
    /\ ReportIdle /\ AggIdle

NextStartup == LoadModule \/ Next

SpecStartup == InitStartup /\ [][NextStartup]_vars

NoKey == procEnv.GEMINI_API_KEY = Unset /\ procEnv.GOOGLE_API_KEY = Unset

(* C20: when neither GEMINI_API_KEY nor GOOGLE_API_KEY is set, the process
   goes from its start to its end with exit code 1 and nothing else
   happens: no trial starts (the dataset is read at the start of a trial),
   no outbound call is started and no report is written. *)
C20_NoKeyNoWork ==
    NoKey => /\ mainPc \in {"load", "exited"}
             /\ mainPc = "exited" => exitCode = 1
             /\ mainPc = "load" => now = 0
             /\ index = 0
             /\ reportsWritten = 0
             /\ \A f \in FormatSet : task[f] = NoTask
             /\ lastStart = -1

\* The process has ended with exit code 1 for want of a key.
C20_Witness ==
    /\ NoKey
    /\ mainPc = "exited"
    /\ exitCode = 1
    /\ now > 0

(***************************************************************************)
(*                 CLAIMS ABOUT THE FILES OF A TRIAL                       *)
(***************************************************************************)
\* The files of the directory that carry the base name of a trial.
TrialFiles(dir, ts) == {n \in DOMAIN dir : n.base = "benchmark" /\ n.ts = ts}

(* C16: when runOnce has persisted a trial, the directory holds for the
   base name of the trial exactly one Markdown report, one structured
   snapshot of the summary (a .json file of the base name that is not a
   raw-response file) and three raw-response files. *)
C16_TrialFilesComplete ==
    [][Len(written') > Len(written)
         => \A fs \in {TrialFiles(store', written'[Len(written')].timestamp)} :
               /\ Cardinality({n \in fs : n.ext = "md"}) = 1
               /\ Cardinality({n \in fs : n.ext = "json" /\ n.suffix = ""}) = 1
               /\ Cardinality({n \in fs : n.ext = "json" /\ n.suffix # ""}) = 3
               /\ Cardinality(fs) = 5]_vars

(***************************************************************************)
(*              CLAIMS ABOUT THE MEASURE AND THE LIMITER                   *)
(***************************************************************************)
(* C21: the apiLatencyMs of a format that has finished is the time from
   the start of its generateContent call to the return of that call; the
   time the sub-task slept in withRateLimit is not in it. *)
C21_LatencyIsCallTime ==
    \A f \in FormatSet :
        task[f].pc = "done" => task[f].apiLatencyMs = task[f].callMs

(* C22: runOnce goes on to compute the deltas and to write the files of a
   trial only when all three sub-tasks have returned from generateContent,
   and a sub-task enters withRateLimit for generateContent only at the
   return of its countTokens call. *)
C22_JoinedAfterAllThree ==
    /\ [](mainPc = "persist"
            => \A f \in FormatSet : task[f].pc = "done" /\ task[f].apiLatencyMs >= 0)
    /\ [][/\ reportsWritten' # reportsWritten
             => \A f \in FormatSet : task[f].pc = "done"
          /\ (mainPc' = "persist" /\ mainPc # "persist")
             => mainPc = "awaitAll" /\ \A f \in FormatSet : task'[f].pc = "done"
          /\ \A f \in FormatSet :
                (task'[f].pc \in {"sleepGen", "gen"} /\ task[f].pc \notin {"sleepGen", "gen"})
                => task[f].pc = "count"]_vars

\* The three sub-tasks of the second trial have returned and runOnce is
\* about to write its files.
C22_Witness ==
    /\ mainPc = "persist"
    /\ index = 1
    /\ reportsWritten = 1
    /\ \A f \in FormatSet : task[f].pc = "done" /\ task[f].apiLatencyMs >= REQUEST_COOLDOWN_MS

(***************************************************************************)
(*                  CLAIMS ABOUT THE AGGREGATE                             *)
(***************************************************************************)
\* The deltas of a summary are the differences of its averages.
DeltasMatchAverages(sum) ==
    \A pair \in PairNames :
        LET base == sum.averageMetrics[Baseline(pair)]
            cmp == sum.averageMetrics[Comparison(pair)]
        IN /\ sum.averageDeltas[pair].tokenSavings =
                 RatSub(base.preflightTokenCount, cmp.preflightTokenCount)
           /\ sum.averageDeltas[pair].apiLatencyDeltaMs =
                 RatSub(base.apiLatencyMs, cmp.apiLatencyMs)

(* C23: in every summary an aggregation run writes, for each pair the
   average tokenSavings is the average preflightTokenCount of the baseline
   minus that of the comparison format, and the average apiLatencyDeltaMs
   is the average apiLatencyMs of the baseline minus that of the comparison
   format. *)
C23_AggregateDeltasConsistent ==
    \A i \in 1..Len(runs) : runs[i].wrote => DeltasMatchAverages(runs[i].summary)

(* C24: for every report the reader accepts, conversionOverheadMs of TOON
   vs JSON and of MARKDOWN vs JSON is the figure of the overhead line of
   the report with its sign: the comparison format's conversion time minus
   the baseline's of the trial that was written, to one decimal. *)
C24_OverheadSigned ==
    (rpc = "parsed" /\ IsReport(parsed)) =>
        \A pair \in {"toonVsJson", "markdownVsJson"} :
            parsed.report.deltas[pair].conversionOverheadMs
                = RoundToTenth(summary.deltas[pair].conversionOverheadMs)

(***************************************************************************)
(*            REPORTS WITH EDITED TABLES  (SpecEdited)                     *)
(*                                                                         *)
(* SpecReport with one more step: between the write and the read-back the  *)
(* first cell of a table row is replaced by another name, so that the      *)
(* reader meets tables with formats in another order, duplicated, missing  *)
(* and unknown.                                                            *)
(***************************************************************************)
RowNames == FormatSet \cup {"XML"}

\* Environment: the file is edited before the aggregator reads it
\* (aggregate-reports.ts:89).
REditRow ==
    /\ rpc = "written"
    /\ \E i \in 1..Len(markdown), name \in RowNames :
          /\ markdown[i].k = "row"
          /\ markdown[i].a[1] # name
          /\ markdown' = [markdown EXCEPT ![i].a[1] = name]
    /\ UNCHANGED <<rpc, summary, parsed, runnerVars, aggVars, toolVars>>

NextEdited == NextReport \/ REditRow

SpecEdited == InitReport /\ [][NextEdited]_vars

\* The names in the first cells of the table rows of a text.
RowFormats(lines) ==
    LET IsRow(l) == l.k = "row"
        rows == SelectSeq(lines, IsRow)
    IN [i \in 1..Len(rows) |-> rows[i].a[1]]

OneOfEach(names) ==
    /\ Len(names) = 3
    /\ \A F \in FormatSet : Cardinality({i \in 1..Len(names) : names[i] = F}) = 1

(* C25: a record that parseMarkdownReport returns has a formats list with
   exactly one entry for each of JSON, TOON and MARKDOWN; a table of three
   rows in which a format is duplicated, missing or unknown gives no
   record. *)
C25_OneEntryPerFormat ==
    rpc = "parsed" =>
        /\ IsReport(parsed) =>
              OneOfEach([i \in 1..Len(parsed.report.formats) |->
                            parsed.report.formats[i].format])
        /\ ~OneOfEach(RowFormats(markdown)) => ~IsReport(parsed)

\* A table with the rows JSON, JSON, XML has been read and gave no record.
C25_Witness ==
    /\ rpc = "parsed"
    /\ RowFormats(markdown) = <<"JSON", "JSON", "XML">>
    /\ ~IsReport(parsed)
    /\ parsed.why = "exception"

(***************************************************************************)
(*                 CLAIMS ABOUT THE RATE LIMITER                           *)
(***************************************************************************)
\* An outbound call of f returns in this step.
Returns(f) ==
    \/ task[f].pc = "count" /\ task'[f].pc \in {"sleepGen", "gen"}
    \/ task[f].pc = "gen" /\ task'[f].pc = "done"

\* An outbound call of f throws in this step.
Throws(f) == task[f].pc \in {"count", "gen"} /\ task'[f].pc = "failed"

(* C26: nextAvailableRequestTime changes only in a step in which an
   outbound call returns, and every such step sets it to the time of the
   return plus REQUEST_COOLDOWN_MS; a step in which a call throws and a step
   that only starts calls leave it unchanged; it never decreases. *)
C26_LimiterClockWrites ==
    [][/\ nextAvailableRequestTime' # nextAvailableRequestTime
          => \E f \in FormatSet : Returns(f)
       /\ (\E f \in FormatSet : Returns(f))
          => nextAvailableRequestTime' = now + REQUEST_COOLDOWN_MS
       /\ (\E f \in FormatSet : Throws(f))
          => nextAvailableRequestTime' = nextAvailableRequestTime
       /\ ((\E f \in FormatSet : StartsCall(f)) /\ ~\E f \in FormatSet : Returns(f))
          => nextAvailableRequestTime' = nextAvailableRequestTime
       /\ nextAvailableRequestTime' >= nextAvailableRequestTime]_vars

\* A generateContent call returned at 4500 ms and set the clock to 9000 ms;
\* a call of another format has thrown since and the clock still reads
\* 9000 ms.
C26_Witness ==
    /\ nextAvailableRequestTime = 2 * REQUEST_COOLDOWN_MS
    /\ now > REQUEST_COOLDOWN_MS
    /\ \E f \in FormatSet : task[f].pc = "done" /\ task[f].apiLatencyMs = REQUEST_COOLDOWN_MS
    /\ \E f \in FormatSet : task[f].pc = "failed"

(***************************************************************************)
(*              CLAIMS ABOUT THE REPORTS DIRECTORY                         *)
(***************************************************************************)
\* The per-trial Markdown reports of a directory.
BenchmarkMd(dir) ==
    {n \in DOMAIN dir : n.base = "benchmark" /\ n.ext = "md"}

(* C27: a summary counts trial reports only: totalRuns is at most the
   number of per-trial Markdown reports of the directory the run listed,
   also when OVERALL_COMPARISON_SUMMARY.md of an earlier run is among the
   files, the model is the model of the trials and the date range begins
   at the timestamp of a trial. *)
C27_OwnOutputNotCounted ==
    \A i \in 1..Len(runs) :
        runs[i].wrote =>
            /\ runs[i].summary.totalRuns <= Cardinality(BenchmarkMd(runs[i].dir))
            /\ runs[i].summary.model = MODEL_NAME
            /\ \E n \in BenchmarkMd(runs[i].dir) :
                  runs[i].summary.dateRange.earliest = n.ts

(***************************************************************************)
(*             THE RATE LIMITER UNDER FAIRNESS  (SpecLimiter)              *)
(*                                                                         *)
(* The series with its progress assumptions: the event loop runs what is   *)
(* ready, timers fire, the clock advances and an outbound call returns or  *)
(* throws.  Every step of Next moves the series forward, so weak fairness  *)
(* of Next says that the series does not stop while a step is possible.    *)
(* The clock of the model stops at MaxTime; a timer set beyond MaxTime is  *)
(* outside the model.                                                      *)
(***************************************************************************)
\* The series of MaxRepeat trials: its first trial is every series of one.
InitLimiter == Init /\ options.repeat = MaxRepeat

SpecLimiter == InitLimiter /\ [][Next]_vars /\ WF_vars(Next)

\* f enters withRateLimit in this step and goes to sleep.
EntersAsleep(f) ==
    /\ task'[f].pc \in {"sleepCount", "sleepGen"}
    /\ task[f].pc \notin {"sleepCount", "sleepGen"}

\* f enters withRateLimit in this step and calls its task at once.
EntersAwake(f) ==
    /\ task'[f].pc \in {"count", "gen"}
    /\ task[f].pc \notin {"sleepCount", "sleepGen", "count", "gen"}

Asleep(f) == task[f].pc \in {"sleepCount", "sleepGen"}

(* C28: a call that enters withRateLimit before nextAvailableRequestTime
   sleeps, and its task starts no earlier than the value it read on entry;
   a call that enters at or after nextAvailableRequestTime starts its task
   in the same step; and every call that sleeps starts its task in the
   end. *)
C28_LimiterWaits ==
    /\ [][\A f \in FormatSet :
            /\ EntersAsleep(f)
               => /\ now < nextAvailableRequestTime'
                  /\ task'[f].wakeAt = nextAvailableRequestTime'
            /\ EntersAwake(f) => now >= nextAvailableRequestTime'
            /\ (Asleep(f) /\ ~Asleep(f)')
               => /\ task'[f].pc = (IF task[f].pc = "sleepCount" THEN "count" ELSE "gen")
                  /\ now >= task[f].wakeAt]_vars
    /\ \A f \in FormatSet :
          (Asleep(f) /\ task[f].wakeAt <= MaxTime) ~> (task[f].pc \in {"count", "gen"})

\* A sub-task that went to sleep at 0 ms until 4500 ms is in its
\* generateContent call, started at 4500 ms.
C28_Witness ==
    \E f \in FormatSet :
        /\ task[f].pc = "gen"
        /\ task[f].measureStart = 0
        /\ task[f].wakeAt = REQUEST_COOLDOWN_MS
        /\ task[f].started = REQUEST_COOLDOWN_MS

(***************************************************************************)
(*                 THE SERIES UNDER FAIRNESS  (SpecSeries)                 *)
(***************************************************************************)
SpecSeries == Init /\ [][Next]_vars /\ WF_vars(Next)

\* A timer is set beyond the end of the model's clock.
ClockRanOut ==
    \/ \E f \in FormatSet : Asleep(f) /\ task[f].wakeAt > MaxTime
    \/ mainPc = "delay" /\ delayUntil > MaxTime

(* C29: with --repeat N, N >= 1, and no call failing, main starts trial
   number index + 1 for index = 0 .. N-1 and no other, sleeps delayMs after
   each trial but the last (N-1 times), has written N Markdown reports when
   it returns, prints the averages once when N > 1 and never when N = 1,
   does nothing after it has returned, and does return. *)
C29_SeriesOfN ==
    /\ [](mainPc = "done"
          => /\ reportsWritten = options.repeat
             /\ index = options.repeat - 1
             /\ exitCode = 0
             /\ averagesPrinted = (IF options.repeat > 1 THEN 1 ELSE 0))
    /\ [](mainPc # "done" => averagesPrinted = 0)
    /\ [][/\ (mainPc = "ready" /\ mainPc' # "ready")
             => /\ mainPc' = "awaitAll"
                /\ index < options.repeat
                /\ reportsWritten = index
          /\ (mainPc' = "delay" /\ mainPc # "delay")
             => /\ index < options.repeat - 1
                /\ reportsWritten' = index + 1
          /\ (mainPc = "delay" /\ mainPc' # "delay")
             => /\ mainPc' = "ready"
                /\ index' = index + 1
                /\ now >= delayUntil
          /\ (mainPc' = "done" /\ mainPc # "done")
             => /\ mainPc = "persist"
                /\ index = options.repeat - 1
          /\ mainPc = "done"
             => UNCHANGED <<mainPc, index, reportsWritten, averagesPrinted,
                            task, exitCode, nextAvailableRequestTime>>]_vars
    /\ <>(mainPc \in {"done", "failed"} \/ ClockRanOut)

\* A series of two trials with a delay of one cooldown has returned.
C29_Witness ==
    /\ mainPc = "done"
    /\ options = [repeat |-> 2, delayMs |-> REQUEST_COOLDOWN_MS]
    /\ index = 1
    /\ reportsWritten = 2
    /\ averagesPrinted = 1

\* A step of aggregateReports, and a trial persisting its files.
AggregationStep ==
    <<aggPc, markdownFiles, reports, skipped, aggExit, runs>>' #
        <<aggPc, markdownFiles, reports, skipped, aggExit, runs>>
TrialPersists == written' # written

\* The files a trial writes: one report and three raw responses.
IsTrialFile(n) == n.base = "benchmark"

Kept(n) == n \in DOMAIN store /\ n \in DOMAIN store' /\ store'[n] = store[n]

(* C30: a trial that persists its files adds one report and three raw
   responses under names no file had, and leaves every file that was there
   as it was; a step of an aggregation run leaves every file other than
   OVERALL_COMPARISON_SUMMARY.md and OVERALL_COMPARISON_SUMMARY.json as it
   was and creates no other file. *)
C30_TrialFilesAppendOnly ==
    [][/\ TrialPersists
          => /\ \A n \in DOMAIN store : Kept(n)
             /\ \E ts \in 1..MaxReports :
                   /\ TrialFiles(store, ts) = {}
                   /\ DOMAIN store' = DOMAIN store \cup
                         {ReportName(ts), ResponseName(ts, "json"),
                          ResponseName(ts, "toon"), ResponseName(ts, "markdown")}
       /\ AggregationStep
          => /\ \A n \in (DOMAIN store \cup DOMAIN store') \ {SummaryMd, SummaryJson} :
                   Kept(n)
             /\ \A n \in {SummaryMd, SummaryJson} :
                   n \in DOMAIN store => n \in DOMAIN store']_vars

\* Two trials and two aggregation runs, one after each trial: both reports
\* are as their trials wrote them and the summary is in the directory.
C30_Witness ==
    /\ Len(written) = 2
    /\ Len(runs) = 2
    /\ runs[1].wrote /\ runs[2].wrote
    /\ runs[1].summary.totalRuns = 1
    /\ SummaryMd \in DOMAIN store /\ SummaryJson \in DOMAIN store
    /\ \A ts \in 1..2 :
          /\ ReportName(ts) \in DOMAIN store
          /\ store[ReportName(ts)] = File(generateMarkdownReport(written[ts]))

====
